---- MODULE Spec2Model ----
(***************************************************************************)
(* Model of julezz: the incremental activity sync of                       *)
(* JulesClient::fetch_activities (src/src/api.rs), the cache-only read     *)
(* JulesClient::list_cached_activities, and the notification watcher task  *)
(* of start_bot (src/src/bot.rs); the session roster and the alias map of  *)
(* src/src/cache.rs, the identifier resolver of src/src/resolve.rs and the *)
(* commands of src/src/main.rs and src/src/bot.rs that rewrite them.       *)
(*                                                                         *)
(* Optional values (Rust Option<T>, a file that may not exist) are         *)
(* sequences of length at most one: None == << >>, Some(x) == << x >>.     *)
(***************************************************************************)
EXTENDS Integers, Sequences, FiniteSets, TLC

\* ------------------------------------------------------------------ bounds

\* Activities the remote service creates in total, over all sessions, while
\* foreground commands run.
MaxActivities == 4

\* Activities per page of the remote list_activities endpoint.
PageSize == 2

\* Activities the remote service creates in total while the bot runs.
MaxBotActivities == 2

\* Sessions the remote service creates in total while roster commands run.
MaxSessions == 2

\* Sessions of the service when the resolver is run over every roster.
MaxRoster == 3

\* usize::MAX, scaled down so that a numeral of two digits can overflow.
UsizeMax == 15

\* ------------------------------------------------------------- basic values

None == << >>

Some(x) == << x >>

IsSome(o) == o # << >>

Unwrap(o) == o[1]

\* The sessions the remote service holds, in the order list_sessions returns them.
ListSessions == << "s1", "s2" >>

Sessions == { ListSessions[i] : i \in 1..Len(ListSessions) }

\* The execution paths that call into the sync engine: a foreground command
\* and the background watcher task.
Procs == { "fg", "bg" }

\* Originator and payload fields set (Activity's Option fields that are Some)
\* of the activities the remote service creates.
ActivityShapes ==
    { << "agent", { "agentMessaged" } >>,
      << "agent", { "progressUpdated", "artifacts" } >>,
      << "agent", { "sessionCompleted" } >>,
      << "user", { "userMessaged" } >> }

\* The sync engine never looks inside an activity: two shapes tell them apart.
SyncShapes == { << "agent", { "agentMessaged" } >>, << "user", { "userMessaged" } >> }

\* The chats that talk to the bot, by chat id, and the keys they offer to /auth.
Chats == { 101, 102 }

ServerApiKey == "key"

Keys == { ServerApiKey, "wrong" }

IsPrefix(a, b) == Len(a) <= Len(b) /\ SubSeq(b, 1, Len(a)) = a

Min(a, b) == IF a <= b THEN a ELSE b

VARIABLES
    remote,          \* remote[s]: the activity log of session s on the service
    fullPageHasNext, \* service convention: a full last page still carries a next token
    messages,        \* messages[s]: messages.json of s (stable), None when no file
    last_page,       \* last_page[s]: last_page.json of s (tail), None when no file
    page_token,      \* page_token[s]: page_token.json of s, None when no file
    sync,            \* sync[p]: locals of the fetch_activities call of path p
    result,          \* result[p]: what the last call of path p returned
    sealedAnswered,  \* history: per session, the pages answered with a next token
    lastOk,          \* history: per session, the last successful fetch_activities
    client,          \* the shared Option<JulesClient> of the bot: installed or not
    chat_id,         \* chat_id.txt: the owner chat, None when no file
    watcher,         \* position of the watcher task in its loop
    last_activities, \* the watcher's map session -> last notified activity id
    notifications,   \* history: per session, the notifications the watcher emitted
    live,            \* the ids of the sessions the remote service holds
    created,         \* how many sessions the remote service has created so far
    sessions_file,   \* sessions.json: the roster, the ids of its entries in order
    aliases_file,    \* aliases.json: the map alias name -> session id
    cmd,             \* history: the last command, its input and its outcome
    current_session, \* current_session.txt: the id of the current session, None when no file
    handler          \* position of the /alias handler between its two lock acquisitions

vars == << remote, fullPageHasNext, messages, last_page, page_token, sync, result,
           sealedAnswered, lastOk, client, chat_id, watcher, last_activities,
           notifications, live, created, sessions_file, aliases_file, cmd,
           current_session, handler >>

syncVars == << messages, last_page, page_token, sync, result, sealedAnswered, lastOk >>

botVars == << client, chat_id, watcher, last_activities, notifications, handler >>

rosterVars == << live, created, sessions_file, aliases_file, cmd, current_session >>

activityVars == << remote, fullPageHasNext, messages, last_page, page_token, sync,
                   result, sealedAnswered, lastOk >>

\* --------------------------------------------------------- remote service

TotalActivities == Len(remote["s1"]) + Len(remote["s2"])

\* Page index a request token names: no token is the first page.
TokenPage(token) == IF IsSome(token) THEN Unwrap(token) ELSE 0

PageOf(log, k) == SubSeq(log, k * PageSize + 1, Min((k + 1) * PageSize, Len(log)))

HasNext(log, k) ==
    IF fullPageHasNext THEN Len(log) >= (k + 1) * PageSize
                       ELSE Len(log) > (k + 1) * PageSize

\* list_activities(session, page_token?) -> {activities, next_page_token?}
ListActivitiesResponse(log, token) ==
    [ activities |-> PageOf(log, TokenPage(token)),
      next_page_token |-> IF HasNext(log, TokenPage(token))
                          THEN Some(TokenPage(token) + 1) ELSE None ]

\* Index of the page the service answers without a next token.
TailPage(log) == CHOOSE k \in 0..Len(log) :
                    /\ ~HasNext(log, k)
                    /\ \A j \in 0..(k - 1) : HasNext(log, j)

\* The service appends one activity to the log of session s.
RemoteAppend(s, shape, max) ==
    /\ TotalActivities < max
    /\ remote' = [remote EXCEPT ![s] =
                     Append(@, [ id |-> << s, Len(@) + 1 >>,
                                 originator |-> shape[1],
                                 fields |-> shape[2] ])]
    /\ UNCHANGED << fullPageHasNext, syncVars >>

\* ------------------------------------------------------------- cache files

\* messages.json read back, or Vec::new() when the file does not exist.
ReadStable(s) == IF IsSome(messages[s]) THEN Unwrap(messages[s]) ELSE << >>

\* last_page.json read back, or nothing when the file does not exist.
ReadTail(s) == IF IsSome(last_page[s]) THEN Unwrap(last_page[s]) ELSE << >>

\* Faulty variant: the persisted token is never picked up, every call starts at page one.
ReadPageToken_Lost(s) == None

\* page_token.json read back as Option<String>.
ReadPageToken(s) == IF IsSome(page_token[s]) THEN Some(Unwrap(page_token[s])) ELSE None

CacheOf(s) == [ messages |-> messages[s], last_page |-> last_page[s],
                page_token |-> page_token[s] ]

\* ---------------------------------------------------------- fetch_activities

IdleSync == [ pc |-> "idle", session |-> "s1", stable_activities |-> << >>,
              page_token |-> None, new_activities_to_make_stable |-> << >>,
              last_page_activities |-> << >>, last_page_token |-> None,
              requests |-> 0, remoteSeen |-> << >>, cacheAtCall |-> None ]

NoResult == [ op |-> "none", status |-> "none", session |-> "s1",
              activities |-> << >>, remoteSeen |-> << >> ]

\* The call has returned: its locals are dropped. History keeps the session,
\* the number of page requests it issued and the cache it started from.
Returned(l) == [ IdleSync EXCEPT !.session = l.session, !.requests = l.requests,
                                 !.cacheAtCall = l.cacheAtCall ]

\* The call starts: the stable activities and the resume token are loaded.
FetchStart(p, s) ==
    /\ sync[p].pc = "idle"
    /\ sync' = [sync EXCEPT ![p] =
                   [ pc |-> "request", session |-> s,
                     stable_activities |-> ReadStable(s),
                     page_token |-> ReadPageToken(s),
                     new_activities_to_make_stable |-> << >>,
                     last_page_activities |-> << >>,
                     last_page_token |-> None,
                     requests |-> 0, remoteSeen |-> << >>,
                     cacheAtCall |-> Some(CacheOf(s)) ]]
    /\ UNCHANGED << remote, fullPageHasNext, messages, last_page, page_token, result,
                    sealedAnswered, lastOk >>

\* Faulty variant: the loop's token is dropped after every page, so that the
\* loop ends with the first page.
AfterPage_StopEarly(l, requested, response) ==
    IF IsSome(response.next_page_token)
    THEN [ l EXCEPT !.new_activities_to_make_stable = @ \o response.activities,
                    !.page_token = None ]
    ELSE [ l EXCEPT !.last_page_activities = response.activities,
                    !.last_page_token = requested,
                    !.page_token = response.next_page_token ]

\* Faulty variant: the page without a next token is sealed as well.
AfterPage_SealAll(l, requested, response) ==
    IF IsSome(response.next_page_token)
    THEN [ l EXCEPT !.new_activities_to_make_stable = @ \o response.activities,
                    !.page_token = response.next_page_token ]
    ELSE [ l EXCEPT !.new_activities_to_make_stable = @ \o response.activities,
                    !.last_page_activities = response.activities,
                    !.last_page_token = requested,
                    !.page_token = response.next_page_token ]

\* The locals after one answered page: a page with a next token is sealed, a
\* page without one is the tail, requested with the token `requested`.
AfterPage(l, requested, response) ==
    IF IsSome(response.next_page_token)
    THEN [ l EXCEPT !.new_activities_to_make_stable = @ \o response.activities,
                    !.page_token = response.next_page_token ]
    ELSE [ l EXCEPT !.last_page_activities = response.activities,
                    !.last_page_token = requested,
                    !.page_token = response.next_page_token ]

\* History: the sealed pages of a session, by page index, each recorded once.
RecordSealed(pages, k, response) ==
    IF IsSome(response.next_page_token) /\ k = Len(pages)
    THEN Append(pages, response.activities) ELSE pages

\* One iteration of the page loop whose request is answered.
FetchPage(p) ==
    /\ sync[p].pc = "request"
    /\ LET l == sync[p]
           requested == l.page_token
           response == ListActivitiesResponse(remote[l.session], requested)
           after == AfterPage(l, requested, response)
       IN  /\ sync' = [sync EXCEPT ![p] =
                          [ after EXCEPT !.pc = IF IsSome(after.page_token)
                                                THEN "request" ELSE "write",
                                         !.requests = @ + 1,
                                         !.remoteSeen = remote[l.session] ]]
           /\ sealedAnswered' = [sealedAnswered EXCEPT ![l.session] =
                                    RecordSealed(@, TokenPage(requested), response)]
    /\ UNCHANGED << remote, fullPageHasNext, messages, last_page, page_token, result,
                    lastOk >>

\* Faulty variant: the pages sealed so far are written before the error is returned.
FetchPageError_Flush(p) ==
    /\ sync[p].pc = "request"
    /\ sync' = [sync EXCEPT ![p] = Returned([ sync[p] EXCEPT !.requests = @ + 1 ])]
    /\ result' = [result EXCEPT ![p] =
                     [ op |-> "fetch", status |-> "err", session |-> sync[p].session,
                       activities |-> << >>, remoteSeen |-> << >> ]]
    /\ messages' = [messages EXCEPT ![sync[p].session] =
                       Some(sync[p].stable_activities
                            \o sync[p].new_activities_to_make_stable)]
    /\ UNCHANGED << remote, fullPageHasNext, last_page, page_token,
                    sealedAnswered, lastOk >>

\* One iteration of the page loop whose request fails: the call returns the error.
FetchPageError(p) ==
    /\ sync[p].pc = "request"
    /\ sync' = [sync EXCEPT ![p] = Returned([ sync[p] EXCEPT !.requests = @ + 1 ])]
    /\ result' = [result EXCEPT ![p] =
                     [ op |-> "fetch", status |-> "err", session |-> sync[p].session,
                       activities |-> << >>, remoteSeen |-> << >> ]]
    /\ UNCHANGED << remote, fullPageHasNext, messages, last_page, page_token,
                    sealedAnswered, lastOk >>

\* Faulty variant: the newly sealed pages replace the stable list.
MergeStable_Replace(stable_activities, new_activities_to_make_stable) ==
    new_activities_to_make_stable

\* Faulty variant: the newly sealed pages are put in front of the stable list.
MergeStable_NewFirst(stable_activities, new_activities_to_make_stable) ==
    new_activities_to_make_stable \o stable_activities

\* Faulty variant: only the activities that the stable list lacks are added.
MergeStable_Unique(stable_activities, new_activities_to_make_stable) ==
    LET Lacking(a) == \A i \in 1..Len(stable_activities) : stable_activities[i].id # a.id
    IN  stable_activities \o SelectSeq(new_activities_to_make_stable, Lacking)

\* stable_activities.extend(new_activities_to_make_stable)
MergeStable(stable_activities, new_activities_to_make_stable) ==
    stable_activities \o new_activities_to_make_stable

\* Faulty variant: the tail is appended to what the file held.
WriteTail_Append(previous, last_page_activities) ==
    Some((IF IsSome(previous) THEN Unwrap(previous) ELSE << >>) \o last_page_activities)

\* last_page.json after the call: the tail replaces what the file held.
WriteTail(previous, last_page_activities) == Some(last_page_activities)

\* Faulty variant: the loop's token, None once the loop has ended, is persisted.
WritePageToken_Never(last_page_token) == None

\* The page token file after the call: written, or removed.
WritePageToken(last_page_token) ==
    IF IsSome(last_page_token) THEN Some(Unwrap(last_page_token)) ELSE None

\* stable_activities.extend(last_page_activities); Ok(stable_activities)
ReturnedActivities(stable_activities, last_page_activities) ==
    stable_activities \o last_page_activities

\* After the page loop: the three files are written and the log is returned.
FetchFinish(p) ==
    /\ sync[p].pc = "write"
    /\ LET l == sync[p]
           s == l.session
           stable == MergeStable(l.stable_activities, l.new_activities_to_make_stable)
           tail == WriteTail(last_page[s], l.last_page_activities)
           token == WritePageToken(l.last_page_token)
           returned == ReturnedActivities(stable, l.last_page_activities)
       IN  /\ messages' = [messages EXCEPT ![s] = Some(stable)]
           /\ last_page' = [last_page EXCEPT ![s] = tail]
           /\ page_token' = [page_token EXCEPT ![s] = token]
           /\ result' = [result EXCEPT ![p] =
                            [ op |-> "fetch", status |-> "ok", session |-> s,
                              activities |-> returned, remoteSeen |-> l.remoteSeen ]]
           /\ lastOk' = [lastOk EXCEPT ![s] =
                            Some([ activities |-> returned, remoteSeen |-> l.remoteSeen,
                                   cache |-> [ messages |-> Some(stable),
                                               last_page |-> tail,
                                               page_token |-> token ] ])]
           /\ sync' = [sync EXCEPT ![p] = Returned(l)]
    /\ UNCHANGED << remote, fullPageHasNext, sealedAnswered >>

\* ------------------------------------- fetch_activities, file by file

\* The start of fetch_activities, first half: messages.json is read.
\* cacheAtCall is the history of what the call read: the files as they were
\* here, and the page token as it is read in the second half.
SyncReadStable(p, s) ==
    /\ sync[p].pc = "idle"
    /\ sync' = [sync EXCEPT ![p] =
                   [ IdleSync EXCEPT !.pc = "read_token", !.session = s,
                                     !.stable_activities = ReadStable(s),
                                     !.cacheAtCall = Some([ CacheOf(s) EXCEPT
                                                              !.page_token = None ]) ]]
    /\ UNCHANGED << remote, fullPageHasNext, messages, last_page, page_token, result,
                    sealedAnswered, lastOk >>

\* The start of fetch_activities, second half: the page token file is read.
SyncReadToken(p) ==
    /\ sync[p].pc = "read_token"
    /\ sync' = [sync EXCEPT ![p].pc = "request",
                            ![p].page_token = ReadPageToken(sync[p].session),
                            ![p].cacheAtCall =
                                Some([ Unwrap(@) EXCEPT
                                         !.page_token = page_token[sync[p].session] ])]
    /\ UNCHANGED << remote, fullPageHasNext, messages, last_page, page_token, result,
                    sealedAnswered, lastOk >>

\* After the page loop, first write: messages.json.
SyncWriteStable(p) ==
    /\ sync[p].pc = "write"
    /\ LET l == sync[p]
           stable == MergeStable(l.stable_activities, l.new_activities_to_make_stable)
       IN  /\ messages' = [messages EXCEPT ![l.session] = Some(stable)]
           /\ sync' = [sync EXCEPT ![p].pc = "write_tail",
                                   ![p].stable_activities = stable]
    /\ UNCHANGED << remote, fullPageHasNext, last_page, page_token, result,
                    sealedAnswered, lastOk >>

\* Second write: last_page.json.
SyncWriteTail(p) ==
    /\ sync[p].pc = "write_tail"
    /\ LET l == sync[p]
       IN  last_page' = [last_page EXCEPT ![l.session] =
                            WriteTail(@, l.last_page_activities)]
    /\ sync' = [sync EXCEPT ![p].pc = "write_token"]
    /\ UNCHANGED << remote, fullPageHasNext, messages, page_token, result,
                    sealedAnswered, lastOk >>

\* Third write: the page token file is written or removed, and the log is
\* returned.
SyncWriteToken(p) ==
    /\ sync[p].pc = "write_token"
    /\ LET l == sync[p]
       IN  /\ page_token' = [page_token EXCEPT ![l.session] =
                                 WritePageToken(l.last_page_token)]
           /\ result' = [result EXCEPT ![p] =
                            [ op |-> "fetch", status |-> "ok", session |-> l.session,
                              activities |-> ReturnedActivities(l.stable_activities,
                                                                l.last_page_activities),
                              remoteSeen |-> l.remoteSeen ]]
           /\ sync' = [sync EXCEPT ![p] = Returned(l)]
    /\ UNCHANGED << remote, fullPageHasNext, messages, last_page, sealedAnswered, lastOk >>

\* The cache of a session holds no more than the service does: no sync has
\* stopped between its writes yet.
Undamaged(s) == Len(ReadStable(s)) <= Len(remote[s])

\* The second or the third write fails: fetch_activities returns the error
\* with the earlier writes done.
SyncStop(p) ==
    /\ sync[p].pc \in { "write_tail", "write_token" }
    /\ Undamaged(sync[p].session)
    /\ sync' = [sync EXCEPT ![p] = Returned(sync[p])]
    /\ result' = [result EXCEPT ![p] =
                     [ op |-> "fetch", status |-> "err", session |-> sync[p].session,
                       activities |-> << >>, remoteSeen |-> << >> ]]
    /\ UNCHANGED << remote, fullPageHasNext, messages, last_page, page_token,
                    sealedAnswered, lastOk >>

\* ---------------------------------------------------- list_cached_activities

\* Faulty variant: the tail file is not read.
CachedActivities_StableOnly(s) == ReadStable(s)

\* activities of messages.json, extended by those of last_page.json
CachedActivities(s) == ReadStable(s) \o ReadTail(s)

ListCached(p, s) ==
    /\ sync[p].pc = "idle"
    /\ result' = [result EXCEPT ![p] =
                     [ op |-> "list_cached", status |-> "ok", session |-> s,
                       activities |-> CachedActivities(s), remoteSeen |-> << >> ]]
    /\ UNCHANGED << remote, fullPageHasNext, messages, last_page, page_token, sync,
                    sealedAnswered, lastOk >>

\* ----------------------------------------------------------------- /auth

\* Faulty variant: every accepted /auth saves its chat as the owner.
Auth_LastOwner(chat, key) ==
    /\ watcher.pc = "wait"
    /\ IF key = ServerApiKey
       THEN /\ client' = TRUE
            /\ chat_id' = Some(chat)
       ELSE UNCHANGED << client, chat_id >>
    /\ UNCHANGED << remote, fullPageHasNext, syncVars, watcher, last_activities,
                    notifications, handler >>

\* Faulty variant: a key that does not match removes the installed client.
Auth_ResetOnWrongKey(chat, key) ==
    /\ watcher.pc = "wait"
    /\ IF key = ServerApiKey
       THEN /\ client' = TRUE
            /\ chat_id' = IF IsSome(chat_id) THEN chat_id ELSE Some(chat)
       ELSE /\ client' = FALSE
            /\ UNCHANGED chat_id
    /\ UNCHANGED << remote, fullPageHasNext, syncVars, watcher, last_activities,
                    notifications, handler >>

\* Command::Auth: a matching key installs the client; the chat becomes the
\* owner when no owner is saved yet. The handler holds the client lock.
Auth(chat, key) ==
    /\ watcher.pc = "wait"
    /\ IF key = ServerApiKey
       THEN /\ client' = TRUE
            /\ chat_id' = IF IsSome(chat_id) THEN chat_id ELSE Some(chat)
       ELSE UNCHANGED << client, chat_id >>
    /\ UNCHANGED << remote, fullPageHasNext, syncVars, watcher, last_activities,
                    notifications, handler >>

\* ------------------------------------------------------------ watcher task

IdleWatcher == [ pc |-> "wait", queue |-> << >>, delivery |-> "none",
                 emitted |-> [s \in Sessions |-> 0] ]

\* Faulty variant: the timer starts a sweep whatever the previous one is doing.
WatcherTick_Overlap ==
    /\ client /\ IsSome(chat_id)
    /\ watcher' = [IdleWatcher EXCEPT !.pc = "next", !.queue = ListSessions]
    /\ UNCHANGED << remote, fullPageHasNext, syncVars, client, chat_id,
                    last_activities, notifications, handler >>

\* interval.tick() fires. The sweep starts when a client is installed, an
\* owner chat is saved and list_sessions answers; the client lock is then held
\* until the sweep ends.
WatcherTick ==
    /\ watcher.pc = "wait"
    /\ \/ /\ ~client
          /\ watcher' = IdleWatcher
       \/ /\ client /\ ~IsSome(chat_id)
          /\ watcher' = IdleWatcher
       \/ /\ client /\ IsSome(chat_id)
          /\ watcher' = IdleWatcher
       \/ /\ client /\ IsSome(chat_id)
          /\ watcher' = [IdleWatcher EXCEPT !.pc = "next", !.queue = ListSessions]
    /\ UNCHANGED << remote, fullPageHasNext, syncVars, client, chat_id,
                    last_activities, notifications, handler >>

\* The watcher after the session at the head of its queue: the next session,
\* or the end of the sweep.
Advance(w) == [ w EXCEPT !.queue = Tail(@),
                         !.pc = IF Len(w.queue) > 1 THEN "next" ELSE "wait" ]

\* for session in sessions: client.fetch_activities(&session.id) is called.
WatcherFetch ==
    /\ watcher.pc = "next"
    /\ FetchStart("bg", Head(watcher.queue))
    /\ watcher' = [watcher EXCEPT !.pc = "fetching", !.delivery = "none"]
    /\ UNCHANGED << client, chat_id, last_activities, notifications, handler >>

\* Faulty variant: the error ends the sweep instead of skipping the session.
WatcherFetchFailed_Abort ==
    /\ watcher.pc = "fetching"
    /\ sync["bg"].pc = "idle"
    /\ result["bg"].status = "err"
    /\ watcher' = [watcher EXCEPT !.pc = "wait", !.queue = << >>]
    /\ UNCHANGED << remote, fullPageHasNext, syncVars, client, chat_id,
                    last_activities, notifications, handler >>

\* fetch_activities returned an error: the session is skipped for this tick.
WatcherFetchFailed ==
    /\ watcher.pc = "fetching"
    /\ sync["bg"].pc = "idle"
    /\ result["bg"].status = "err"
    /\ watcher' = Advance(watcher)
    /\ UNCHANGED << remote, fullPageHasNext, syncVars, client, chat_id,
                    last_activities, notifications, handler >>

RECURSIVE SelectAgent(_)
SelectAgent(activities) ==
    IF activities = << >> THEN << >>
    ELSE (IF Head(activities).originator = "agent" THEN << Head(activities) >> ELSE << >>)
         \o SelectAgent(Tail(activities))

\* activities.iter().filter(|a| a.originator == "agent").last()
LastAgentActivity(activities) ==
    IF SelectAgent(activities) = << >> THEN None
    ELSE Some(SelectAgent(activities)[Len(SelectAgent(activities))])

\* Faulty variant: the last agent activity is taken as new on every tick.
IsNew_Always(last_seen_activity_id, last_activity) == TRUE

\* last_seen_activity_id.as_deref() != Some(&last_activity.id)
IsNew(last_seen_activity_id, last_activity) ==
    last_seen_activity_id # Some(last_activity.id)

\* The notification text chosen for an activity, None when it has none.
NotificationMessage(last_activity) ==
    IF "agentMessaged" \in last_activity.fields THEN Some("New message")
    ELSE IF "planGenerated" \in last_activity.fields THEN Some("Plan generated")
    ELSE IF "progressUpdated" \in last_activity.fields THEN Some("Progress update")
    ELSE IF "artifacts" \in last_activity.fields THEN Some("New artifacts generated")
    ELSE None

\* Faulty variant: the map entry is left as it was.
AdvanceCursor_Keep(last_seen_activity_id, last_activity) == last_seen_activity_id

\* The map entry of the session after a new last agent activity was handled.
AdvanceCursor(last_seen_activity_id, last_activity) == Some(last_activity.id)

\* fetch_activities returned the log: the last agent activity is compared with
\* the map; a new one is announced (delivery may fail) and recorded.
WatcherNotify ==
    /\ watcher.pc = "fetching"
    /\ sync["bg"].pc = "idle"
    /\ result["bg"].status = "ok"
    /\ LET s == Head(watcher.queue)
           last == LastAgentActivity(result["bg"].activities)
       IN  IF IsSome(last) /\ IsNew(last_activities[s], Unwrap(last))
           THEN /\ last_activities' = [last_activities EXCEPT ![s] =
                                          AdvanceCursor(@, Unwrap(last))]
                /\ IF IsSome(NotificationMessage(Unwrap(last)))
                   THEN /\ notifications' = [notifications EXCEPT ![s] =
                                 Append(@, [ id |-> Unwrap(last).id,
                                             text |-> Unwrap(NotificationMessage(Unwrap(last))) ])]
                        /\ \E delivery \in { "sent", "failed" } :
                             watcher' = [Advance(watcher) EXCEPT !.emitted[s] = @ + 1,
                                                                 !.delivery = delivery]
                   ELSE /\ UNCHANGED notifications
                        /\ watcher' = Advance(watcher)
           ELSE /\ watcher' = Advance(watcher)
                /\ UNCHANGED << last_activities, notifications >>
    /\ UNCHANGED << remote, fullPageHasNext, syncVars, client, chat_id, handler >>

\* ------------------------------------------------- identifiers and session ids

\* Strings that the resolver looks into are sequences of one-character strings.
DigitChars == << "0", "1", "2", "3", "4", "5", "6", "7", "8", "9" >>

IsDigit(c) == \E d \in 1..10 : DigitChars[d] = c

DigitValue(c) == (CHOOSE d \in 1..10 : DigitChars[d] = c) - 1

\* str::starts_with(char)
StartsWith(identifier, c) == Len(identifier) > 0 /\ identifier[1] = c

\* usize::to_string()
RECURSIVE to_string(_)
to_string(number) ==
    IF number < 10 THEN << DigitChars[number + 1] >>
    ELSE to_string(number \div 10) \o << DigitChars[(number % 10) + 1] >>

\* The digit loop of str::parse::<usize>(): checked multiply and add.
RECURSIVE ParseDigits(_, _)
ParseDigits(digits, acc) ==
    IF digits = << >> THEN Some(acc)
    ELSE IF ~IsDigit(Head(digits)) THEN None
    ELSE IF acc * 10 + DigitValue(Head(digits)) > UsizeMax THEN None
    ELSE ParseDigits(Tail(digits), acc * 10 + DigitValue(Head(digits)))

\* identifier.parse::<usize>(): no digits is an error, one leading '+' is
\* accepted, a '-' is not, the value must fit a usize.
ParseUsize(identifier) ==
    IF identifier = << >> THEN None
    ELSE IF identifier = << "+" >> \/ identifier = << "-" >> THEN None
    ELSE IF Head(identifier) = "+" THEN ParseDigits(Tail(identifier), 0)
    ELSE ParseDigits(identifier, 0)

\* The ids the remote service gives to the sessions it creates, in order of
\* creation: no id is given twice.
IdPool == << << "a" >>, << "2" >>, << "9", "9" >>, << "b" >>, << "c" >> >>

\* The alias names that commands are given.
AliasNames == { << "@", "a" >>, << "@", "b" >>, << "b" >> }

\* The alias names that sessions create is given.
CreateAliases == { << "@", "a" >>, << "@", "b" >> }

\* The identifiers that sessions delete is given.
DeleteIdentifiers == { << "1" >>, << "2" >>, << "@", "a" >>, << "a" >>, << "9" >> }

\* The identifiers that commands are given.
Identifiers ==
    { << "@", "a" >>, << "@", "b" >>, << "@", "c" >>,
      << "0" >>, << "1" >>, << "2" >>, << "3" >>, << "9" >>, << "0", "2" >>, << "+", "1" >>,
      << "-", "1" >>, << "9", "9" >>, << "a" >>, << "b" >>, << "z" >>, << >> }

\* ------------------------------------------------------------ remote sessions

\* The orders in which list_sessions may return the sessions of a set.
Orderings(ids) ==
    { l \in [1..Cardinality(ids) -> ids] : \A i, j \in 1..Cardinality(ids) : l[i] = l[j] => i = j }

Ids(sessions) == { sessions[i] : i \in 1..Len(sessions) }

NoCommand == [ op |-> "none", identifier |-> << >>, status |-> "none", id |-> << >>,
               index |-> 0, list |-> << >>, pushed |-> 0, chat |-> 0, cache_errors |-> 0 ]

Command(op, identifier, status, id, index) ==
    [ op |-> op, identifier |-> identifier, status |-> status, id |-> id, index |-> index,
      list |-> << >>, pushed |-> 0, chat |-> 0, cache_errors |-> 0 ]

\* A session is created on the service by another client.
RemoteCreate ==
    /\ created < MaxSessions
    /\ created' = created + 1
    /\ live' = live \cup { IdPool[created + 1] }
    /\ cmd' = NoCommand
    /\ UNCHANGED << sessions_file, aliases_file >>

\* A session is deleted on the service by another client.
RemoteDelete(id) ==
    /\ id \in live
    /\ live' = live \ { id }
    /\ cmd' = NoCommand
    /\ UNCHANGED << created, sessions_file, aliases_file >>

\* ---------------------------------------------------------- resolve.rs

\* What the last roster command was and how it ended; a command that ended
\* well also keeps what it was given, what it resolved, the list it received
\* and how many entries it pushed on the roster.

Ok(session_id, index) == [ status |-> "ok", id |-> session_id, index |-> index ]

Err(e) == [ status |-> e, id |-> << >>, index |-> 0 ]

\* sessions.iter().position(|s| s.id == *session_id)
Position(sessions, session_id) ==
    LET hits == { i \in 1..Len(sessions) : sessions[i] = session_id }
    IN  IF hits = { } THEN None
        ELSE Some((CHOOSE i \in hits : \A j \in hits : i <= j) - 1)

\* Faulty variant: the 0-based position is returned as the index.
ResolveAlias_ZeroBased(identifier, sessions, aliases) ==
    IF identifier \notin DOMAIN aliases THEN Err("AliasNotFound")
    ELSE LET session_id == aliases[identifier]
             position == Position(sessions, session_id)
         IN  IF IsSome(position) THEN Ok(session_id, Unwrap(position))
             ELSE Err("StaleAlias")

\* The alias branch: the alias map is read, the mapped id is looked up in the
\* roster.
ResolveAlias(identifier, sessions, aliases) ==
    IF identifier \notin DOMAIN aliases THEN Err("AliasNotFound")
    ELSE LET session_id == aliases[identifier]
             position == Position(sessions, session_id)
         IN  IF IsSome(position) THEN Ok(session_id, Unwrap(position) + 1)
             ELSE Err("StaleAlias")

\* Faulty variant: sessions.get(index) instead of sessions.get(index - 1).
ResolveIndex_OffByOne(index, sessions) ==
    IF index = 0 THEN Err("NonPositiveIndex")
    ELSE IF index < Len(sessions) THEN Ok(sessions[index + 1], index)
    ELSE Err("IndexOutOfBounds")

\* The index branch: sessions.get(index - 1) of a parsed usize.
ResolveIndex(index, sessions) ==
    IF index = 0 THEN Err("NonPositiveIndex")
    ELSE IF index - 1 < Len(sessions) THEN Ok(sessions[index], index)
    ELSE Err("IndexOutOfBounds")

\* Faulty variant: an id that is not in the roster is returned all the same.
ResolveId_Unchecked(identifier, sessions) ==
    LET position == Position(sessions, identifier)
    IN  IF IsSome(position) THEN Ok(identifier, Unwrap(position) + 1)
        ELSE Ok(identifier, Len(sessions))

\* The literal branch: the identifier is looked up as a session id.
ResolveId(identifier, sessions) ==
    LET position == Position(sessions, identifier)
    IN  IF IsSome(position) THEN Ok(identifier, Unwrap(position) + 1)
        ELSE Err("SessionNotFound")

\* Faulty variant: the identifier is looked up as a session id before it is
\* parsed as an index.
resolve_session_identifier_and_index_IdFirst(identifier, sessions, aliases) ==
    IF sessions = << >> THEN Err("EmptyRoster")
    ELSE IF StartsWith(identifier, "@") THEN ResolveAlias(identifier, sessions, aliases)
    ELSE IF IsSome(Position(sessions, identifier)) THEN ResolveId(identifier, sessions)
    ELSE IF IsSome(ParseUsize(identifier))
    THEN ResolveIndex(Unwrap(ParseUsize(identifier)), sessions)
    ELSE ResolveId(identifier, sessions)

\* Faulty variant: the empty check comes after the alias and index checks.
resolve_session_identifier_and_index_EmptyLast(identifier, sessions, aliases) ==
    IF StartsWith(identifier, "@") THEN ResolveAlias(identifier, sessions, aliases)
    ELSE IF IsSome(ParseUsize(identifier))
    THEN ResolveIndex(Unwrap(ParseUsize(identifier)), sessions)
    ELSE IF sessions = << >> THEN Err("EmptyRoster")
    ELSE ResolveId(identifier, sessions)

\* resolve_session_identifier_and_index over the roster and the alias map read
\* from the cache.
resolve_session_identifier_and_index(identifier, sessions, aliases) ==
    IF sessions = << >> THEN Err("EmptyRoster")
    ELSE IF StartsWith(identifier, "@") THEN ResolveAlias(identifier, sessions, aliases)
    ELSE IF IsSome(ParseUsize(identifier))
    THEN ResolveIndex(Unwrap(ParseUsize(identifier)), sessions)
    ELSE ResolveId(identifier, sessions)

\* A command that only resolves its identifier against the cache (sessions
\* get, approve-plan, send-message, activities): nothing is rewritten.
\* The status the process ends with: main returns the unit value from every
\* branch, the error branches only print to stderr, and nothing ends the
\* process with another status.
ExitStatus(command) == 0

ResolveCommand(identifier) ==
    /\ LET r == resolve_session_identifier_and_index(identifier, sessions_file, aliases_file)
       IN  cmd' = Command("resolve", identifier, r.status, r.id, r.index)
    /\ UNCHANGED << live, created, sessions_file, aliases_file >>

\* ------------------------------------------------ roster commands of main.rs

\* Faulty variant: an alias that exists keeps its session.
Insert_KeepExisting(aliases, alias_name, session_id) ==
    [ a \in DOMAIN aliases \cup { alias_name } |->
        IF a \in DOMAIN aliases THEN aliases[a] ELSE session_id ]

\* aliases.insert(alias_name, session_id)
Insert(aliases, alias_name, session_id) ==
    [ a \in DOMAIN aliases \cup { alias_name } |->
        IF a = alias_name THEN session_id ELSE aliases[a] ]

\* aliases.retain(|_, session_id| ...): the entries whose session id is in keep.
RetainAliases(aliases, keep) ==
    [ a \in { b \in DOMAIN aliases : aliases[b] \in keep } |-> aliases[a] ]

\* Faulty variant: the sessions that were not cached come first.
ReconciledSessions_UnseenFirst(cached_sessions, sessions_list) ==
    LET Live(id) == id \in Ids(sessions_list)
        retained == SelectSeq(cached_sessions, Live)
        Unseen(id) == id \notin Ids(retained)
    IN  SelectSeq(sessions_list, Unseen) \o retained

\* Faulty variant: every listed session is pushed, cached or not.
ReconciledSessions_PushAll(cached_sessions, sessions_list) ==
    LET Live(id) == id \in Ids(sessions_list)
    IN  SelectSeq(cached_sessions, Live) \o sessions_list

\* manage_sessions_cache, the roster it writes: the cached entries that are
\* still live, then the listed sessions that were not cached, as listed.
ReconciledSessions(cached_sessions, sessions_list) ==
    LET Live(id) == id \in Ids(sessions_list)
        retained == SelectSeq(cached_sessions, Live)
        Unseen(id) == id \notin Ids(retained)
    IN  retained \o SelectSeq(sessions_list, Unseen)

\* manage_sessions_cache, the alias map it writes.
ReconciledAliases(aliases, sessions_list) == RetainAliases(aliases, Ids(sessions_list))

\* SessionsCommands::List: list_sessions, then manage_sessions_cache unless
\* the list is empty.
SessionsList ==
    \/ /\ cmd' = Command("list", << >>, "remote_error", << >>, 0)
       /\ UNCHANGED << live, created, sessions_file, aliases_file >>
    \/ \E sessions_list \in Orderings(live) :
          /\ cmd' = [ Command("list", << >>, "ok", << >>, 0) EXCEPT
                          !.list = sessions_list,
                          !.pushed = IF sessions_list = << >> THEN 0
                                     ELSE Len(ReconciledSessions(sessions_file, sessions_list))
                                          - Cardinality(Ids(sessions_file) \cap Ids(sessions_list)) ]
          /\ IF sessions_list = << >>
             THEN UNCHANGED << sessions_file, aliases_file >>
             ELSE /\ sessions_file' = ReconciledSessions(sessions_file, sessions_list)
                  /\ aliases_file' = ReconciledAliases(aliases_file, sessions_list)
          /\ UNCHANGED << live, created >>

\* add_alias_for_new_session: the new session is pushed on the roster and the
\* alias is inserted.
AddAliasForNewSession(session_id, alias_name) ==
    /\ sessions_file' = Append(sessions_file, session_id)
    /\ aliases_file' = Insert(aliases_file, alias_name, session_id)

\* SessionsCommands::Create with an optional alias.
SessionsCreate(alias) ==
    \/ /\ cmd' = Command("create", << >>, "remote_error", << >>, 0)
       /\ UNCHANGED << live, created, sessions_file, aliases_file >>
    \/ /\ created < MaxSessions
       /\ created' = created + 1
       /\ live' = live \cup { IdPool[created + 1] }
       /\ IF IsSome(alias)
          THEN /\ AddAliasForNewSession(IdPool[created + 1], Unwrap(alias))
               /\ cmd' = [ Command("create", Unwrap(alias), "ok", IdPool[created + 1], 0)
                             EXCEPT !.pushed = 1 ]
          ELSE /\ UNCHANGED << sessions_file, aliases_file >>
               /\ cmd' = Command("create", << >>, "ok", IdPool[created + 1], 0)

\* Faulty variant: sessions.remove(index), the entry after the resolved one.
RemoveSessionFromCache_ZeroBased(sessions, index) ==
    IF index > 0 /\ index < Len(sessions)
    THEN SubSeq(sessions, 1, index) \o SubSeq(sessions, index + 2, Len(sessions))
    ELSE sessions

\* remove_session_from_cache: the entry at the 1-based index is removed.
RemoveSessionFromCache(sessions, index) ==
    IF index > 0 /\ index <= Len(sessions)
    THEN SubSeq(sessions, 1, index - 1) \o SubSeq(sessions, index + 1, Len(sessions))
    ELSE sessions

\* update_aliases_after_deletion: the aliases of the deleted session go.
UpdateAliasesAfterDeletion(aliases, deleted_session_id) ==
    RetainAliases(aliases, { aliases[a] : a \in DOMAIN aliases } \ { deleted_session_id })

\* SessionsCommands::Delete: resolve against the cached roster, delete on the
\* service, then update the roster and the aliases.
SessionsDelete(identifier) ==
    LET r == resolve_session_identifier_and_index(identifier, sessions_file, aliases_file)
    IN  IF r.status # "ok"
        THEN /\ cmd' = Command("delete", << >>, r.status, << >>, 0)
             /\ UNCHANGED << live, created, sessions_file, aliases_file >>
        ELSE \/ /\ r.id \in live
                /\ live' = live \ { r.id }
                /\ sessions_file' = RemoveSessionFromCache(sessions_file, r.index)
                /\ aliases_file' = UpdateAliasesAfterDeletion(aliases_file, r.id)
                /\ cmd' = Command("delete", identifier, "ok", r.id, r.index)
                /\ UNCHANGED created
             \/ /\ cmd' = Command("delete", << >>, "remote_error", << >>, 0)
                /\ UNCHANGED << live, created, sessions_file, aliases_file >>

\* SessionsCommands::Alias, creation: manage_aliases(Some(alias), Some(number), false).
AliasCreate(alias_name, number) ==
    /\ IF ~StartsWith(alias_name, "@")
       THEN /\ cmd' = Command("alias", << >>, "AliasMustStartWithAt", << >>, 0)
            /\ UNCHANGED aliases_file
       ELSE LET r == resolve_session_identifier_and_index(to_string(number), sessions_file,
                                                         aliases_file)
            IN  IF r.status = "ok"
                THEN /\ cmd' = Command("alias", alias_name, "ok", r.id, number)
                     /\ aliases_file' = Insert(aliases_file, alias_name, r.id)
                ELSE /\ cmd' = Command("alias", << >>, r.status, << >>, 0)
                     /\ UNCHANGED aliases_file
    /\ UNCHANGED << live, created, sessions_file >>

\* aliases.remove(alias_name)
Remove(aliases, alias_name) == [ a \in DOMAIN aliases \ { alias_name } |-> aliases[a] ]

\* SessionsCommands::Alias, deletion: manage_aliases(Some(alias), _, true).
AliasDelete(alias_name) ==
    /\ IF ~StartsWith(alias_name, "@")
       THEN /\ cmd' = Command("unalias", << >>, "AliasMustStartWithAt", << >>, 0)
            /\ UNCHANGED aliases_file
       ELSE IF alias_name \in DOMAIN aliases_file
       THEN /\ cmd' = Command("unalias", alias_name, "ok", aliases_file[alias_name], 0)
            /\ aliases_file' = Remove(aliases_file, alias_name)
       ELSE /\ cmd' = Command("unalias", << >>, "AliasNotFound", << >>, 0)
            /\ UNCHANGED aliases_file
    /\ UNCHANGED << live, created, sessions_file >>

\* ------------------------------------------------- roster commands of bot.rs

\* The chat that sends roster commands to the bot.
RosterChats == Chats

\* The /auth message of a chat, with the answer the bot sends.
BotAuth(chat, key) ==
    /\ Auth(chat, key)
    /\ cmd' = [ Command("auth", << >>, IF key = ServerApiKey THEN "ok" ELSE "InvalidKey",
                        << >>, 0) EXCEPT !.chat = chat ]
    /\ UNCHANGED << live, created, sessions_file, aliases_file, current_session >>

\* The identifiers that the bot commands are given.
BotIdentifiers == { << "1" >>, << "@", "a" >>, << "a" >> }

\* Faulty variant: only the owner chat passes the gate.
Authenticated_OwnerOnly(chat) == client /\ chat_id = Some(chat)

\* `client.lock().await.is_some()` at the head of a handler that answers the
\* message of a chat: the shared client is looked at, the chat is not.
Authenticated(chat) == client

\* The chat of a command whose sender is not recorded.
NoChat == NoCommand.chat

\* The record of a command with the chat that sent it.
By(chat, command) == [ command EXCEPT !.chat = chat ]

\* The /alias handler of the bot: idle, or between the check of the client
\* under its first lock acquisition and the unwrap under its second.
IdleHandler == [ pc |-> "idle", chat |-> NoChat, alias_name |-> << >>, identifier |-> << >> ]

\* client.lock().await returns at once: the watcher, which keeps the guard of
\* its `if let Some(client) = &*client_for_task.lock().await` until the end of
\* the sweep, is between two sweeps. Every handler takes the lock the same
\* way and keeps it until it has answered.
ClientLockFree == watcher.pc = "wait"

\* Command::List: the list that list_sessions returns is written as the
\* roster, as it is; the aliases are only read.
AnswerList(chat) ==
    /\ ClientLockFree
    /\ IF ~Authenticated(chat)
       THEN /\ cmd' = By(chat, Command("bot_list", << >>, "AuthMissing", << >>, 0))
            /\ UNCHANGED << live, created, sessions_file, aliases_file >>
       ELSE \/ /\ cmd' = By(chat, Command("bot_list", << >>, "remote_error", << >>, 0))
               /\ UNCHANGED << live, created, sessions_file, aliases_file >>
            \/ \E sessions_list \in Orderings(live) :
                  /\ sessions_file' = sessions_list
                  /\ cmd' = By(chat, [ Command("bot_list", << >>, "ok", << >>, 0) EXCEPT
                                  !.list = sessions_list ])
                  /\ UNCHANGED << live, created, aliases_file >>

\* BotList when the sender is not recorded.
BotList == AnswerList(NoChat)

\* Faulty variant: only the roster is updated, the aliases are left alone.
BotDeleteUpdate_RosterOnly(session_id) ==
    /\ sessions_file' = LET Other(id) == id # session_id IN SelectSeq(sessions_file, Other)
    /\ UNCHANGED aliases_file

\* Command::Delete, after delete_session answered: the session leaves the
\* roster and its aliases leave the alias map.
BotDeleteUpdate(session_id) ==
    /\ sessions_file' = LET Other(id) == id # session_id IN SelectSeq(sessions_file, Other)
    /\ aliases_file' = RetainAliases(aliases_file,
                           { aliases_file[a] : a \in DOMAIN aliases_file } \ { session_id })

\* Command::Delete: the identifier is resolved against the list that
\* list_sessions returns, the session is deleted on the service, then the
\* roster and the aliases are updated.
AnswerDelete(chat, identifier) ==
    /\ ClientLockFree
    /\ IF ~Authenticated(chat)
       THEN /\ cmd' = By(chat, Command("bot_delete", << >>, "AuthMissing", << >>, 0))
            /\ UNCHANGED << live, created, sessions_file, aliases_file >>
       ELSE \/ /\ cmd' = By(chat, Command("bot_delete", << >>, "remote_error", << >>, 0))
               /\ UNCHANGED << live, created, sessions_file, aliases_file >>
            \/ \E sessions \in Orderings(live) :
                  LET r == resolve_session_identifier_and_index(identifier, sessions, aliases_file)
                  IN  IF r.status # "ok"
                      THEN /\ cmd' = By(chat, Command("bot_delete", << >>, r.status, << >>, 0))
                           /\ UNCHANGED << live, created, sessions_file, aliases_file >>
                      ELSE /\ live' = live \ { r.id }
                           /\ BotDeleteUpdate(r.id)
                           /\ cmd' = By(chat, Command("bot_delete", identifier, "ok", r.id, r.index))
                           /\ UNCHANGED created

\* BotDelete when the sender is not recorded.
BotDelete(identifier) == AnswerDelete(NoChat, identifier)

\* ------------------------------------------------------ the current session

\* Faulty variant: a current session that is set is kept.
WriteCurrentSession_KeepFirst(current, session_id) ==
    IF IsSome(current) THEN current ELSE Some(session_id)

\* cache.write_current_session(&session_id): current_session.txt holds the id.
WriteCurrentSession(current, session_id) == Some(session_id)

\* Command::S: the identifier is resolved against the list that list_sessions
\* returns and the session found becomes the current session.
AnswerS(chat, identifier) ==
    /\ ClientLockFree
    /\ IF ~Authenticated(chat)
       THEN /\ cmd' = By(chat, Command("s", << >>, "AuthMissing", << >>, 0))
            /\ UNCHANGED current_session
       ELSE \/ /\ cmd' = By(chat, Command("s", << >>, "remote_error", << >>, 0))
               /\ UNCHANGED current_session
            \/ \E sessions \in Orderings(live) :
                  LET r == resolve_session_identifier_and_index(identifier, sessions, aliases_file)
                  IN  IF r.status # "ok"
                      THEN /\ cmd' = By(chat, Command("s", << >>, r.status, << >>, 0))
                           /\ UNCHANGED current_session
                      ELSE /\ current_session' = WriteCurrentSession(current_session, r.id)
                           /\ cmd' = By(chat, Command("s", identifier, "ok", r.id, r.index))
    /\ UNCHANGED << live, created, sessions_file, aliases_file >>

\* BotS when the sender is not recorded.
BotS(identifier) == AnswerS(NoChat, identifier)

\* default_message_handler: a text that is no command is sent to the current
\* session with client.send_message, which answers or fails; cmd.id is the
\* session that call is made for. Without a current session the chat is told so.
MessageHandler(chat) ==
    /\ ClientLockFree
    /\ IF ~Authenticated(chat)
       THEN cmd' = By(chat, Command("message", << >>, "AuthMissing", << >>, 0))
       ELSE IF IsSome(current_session)
            THEN \E status \in { "ok", "remote_error" } :
                    cmd' = By(chat, Command("message", << >>, status, Unwrap(current_session), 0))
            ELSE cmd' = By(chat, Command("message", << >>, "NoCurrentSession", << >>, 0))
    /\ UNCHANGED << live, created, sessions_file, aliases_file, current_session >>

\* BotMessage when the sender is not recorded.
BotMessage == MessageHandler(NoChat)

\* Command::Ok: without an identifier the current session is read from
\* current_session.txt, with one the identifier is resolved against the list
\* that list_sessions returns; the plan of the session found is approved with
\* client.approve_plan, which answers or fails; cmd.id is the session that
\* call is made for.
AnswerOk(chat, identifier) ==
    /\ ClientLockFree
    /\ IF ~Authenticated(chat)
       THEN cmd' = By(chat, Command("ok", << >>, "AuthMissing", << >>, 0))
       ELSE IF identifier = << >>
       THEN IF IsSome(current_session)
            THEN \E status \in { "ok", "remote_error" } :
                    cmd' = By(chat, Command("ok", << >>, status, Unwrap(current_session), 0))
            ELSE cmd' = By(chat, Command("ok", << >>, "NoCurrentSession", << >>, 0))
       ELSE \/ cmd' = By(chat, Command("ok", << >>, "remote_error", << >>, 0))
            \/ \E sessions \in Orderings(live) :
                  LET r == resolve_session_identifier_and_index(identifier, sessions, aliases_file)
                  IN  IF r.status # "ok"
                      THEN cmd' = By(chat, Command("ok", << >>, r.status, << >>, 0))
                      ELSE \E status \in { "ok", "remote_error" } :
                              cmd' = By(chat, Command("ok", identifier, status, r.id, r.index))
    /\ UNCHANGED << live, created, sessions_file, aliases_file, current_session >>

\* Faulty variant: a current session that left the roster is forgotten.
CurrentSessionAfter_Pruned(current, sessions) ==
    IF IsSome(current) /\ Unwrap(current) \notin Ids(sessions) THEN None ELSE current

\* current_session.txt after a command that wrote the roster `sessions`: the
\* deletions and the reconciliation write sessions.json and aliases.json only.
CurrentSessionAfter(current, sessions) == current

\* ------------------------------------------------------- the /alias handler

\* Command::Alias with an alias name and an identifier, up to the end of its
\* first lock acquisition: `client.lock().await.is_some()` is a temporary, the
\* lock is released when the condition has been evaluated.
AliasCheck(chat, alias_name, identifier) ==
    /\ handler.pc = "idle"
    /\ ClientLockFree
    /\ IF ~Authenticated(chat)
       THEN /\ cmd' = By(chat, Command("bot_alias", << >>, "AuthMissing", << >>, 0))
            /\ UNCHANGED handler
       ELSE IF ~StartsWith(alias_name, "@")
       THEN /\ cmd' = By(chat, Command("bot_alias", << >>, "AliasMustStartWithAt", << >>, 0))
            /\ UNCHANGED handler
       ELSE /\ handler' = [ pc |-> "checked", chat |-> chat, alias_name |-> alias_name,
                            identifier |-> identifier ]
            /\ UNCHANGED cmd
    /\ UNCHANGED << live, created, sessions_file, aliases_file, current_session >>

\* Command::Alias from its second lock acquisition on: client_guard.as_ref()
\* .unwrap() panics on an absent client; otherwise the identifier is resolved
\* against the list that list_sessions returns and the alias is inserted in
\* the alias map.
AliasUnwrap ==
    /\ handler.pc = "checked"
    /\ ClientLockFree
    /\ IF ~client
       THEN /\ handler' = [ handler EXCEPT !.pc = "panicked" ]
            /\ UNCHANGED << cmd, aliases_file >>
       ELSE /\ handler' = IdleHandler
            /\ \/ /\ cmd' = By(handler.chat, Command("bot_alias", << >>, "remote_error", << >>, 0))
                  /\ UNCHANGED aliases_file
               \/ \E sessions \in Orderings(live) :
                     LET r == resolve_session_identifier_and_index(handler.identifier, sessions,
                                                                  aliases_file)
                     IN  IF r.status # "ok"
                         THEN /\ cmd' = By(handler.chat,
                                           Command("bot_alias", << >>, r.status, << >>, 0))
                              /\ UNCHANGED aliases_file
                         ELSE /\ aliases_file' = Insert(aliases_file, handler.alias_name, r.id)
                              /\ cmd' = By(handler.chat,
                                           Command("bot_alias", handler.alias_name, "ok",
                                                   r.id, r.index))
    /\ UNCHANGED << live, created, sessions_file, current_session >>

\* --------------------------------------------------- cache files that fail

\* The four cache operations of Command::Delete, each of which can fail.
CacheOps == { "read_sessions", "write_sessions", "read_aliases", "write_aliases" }

\* The failures of one command: none, or one of its cache operations.
CacheFailures == { { } } \cup { { op } : op \in CacheOps }

\* unwrap_or_default on a cache read: the value read, or the empty value of
\* its type when the read failed.
UnwrapOrDefault(failed, value) == IF failed THEN << >> ELSE value

\* unwrap_or_default on a cache write: the file holds the value written, or
\* what it held before when the write failed.
WriteOrKeep(failed, file, value) == IF failed THEN file ELSE value

\* Command::Delete with the cache operations of the set `failing` failing:
\* each result goes through unwrap_or_default, and the handler answers
\* "Session ... deleted." whatever they were.
BotDeleteIO(identifier, failing) ==
    /\ ClientLockFree
    /\ IF ~client
       THEN /\ cmd' = Command("bot_delete", << >>, "AuthMissing", << >>, 0)
            /\ UNCHANGED << live, created, sessions_file, aliases_file >>
       ELSE \/ /\ cmd' = Command("bot_delete", << >>, "remote_error", << >>, 0)
               /\ UNCHANGED << live, created, sessions_file, aliases_file >>
            \/ \E sessions \in Orderings(live) :
                  LET r == resolve_session_identifier_and_index(identifier, sessions, aliases_file)
                      cached_sessions == UnwrapOrDefault("read_sessions" \in failing, sessions_file)
                      aliases == UnwrapOrDefault("read_aliases" \in failing, aliases_file)
                      Other(id) == id # r.id
                  IN  IF r.status # "ok"
                      THEN /\ cmd' = Command("bot_delete", << >>, r.status, << >>, 0)
                           /\ UNCHANGED << live, created, sessions_file, aliases_file >>
                      ELSE /\ live' = live \ { r.id }
                           /\ sessions_file' =
                                  WriteOrKeep("write_sessions" \in failing, sessions_file,
                                              SelectSeq(cached_sessions, Other))
                           /\ aliases_file' =
                                  WriteOrKeep("write_aliases" \in failing, aliases_file,
                                              RetainAliases(aliases,
                                                  { aliases[a] : a \in DOMAIN aliases } \ { r.id }))
                           /\ cmd' = [ Command("bot_delete", identifier, "ok", r.id, r.index)
                                         EXCEPT !.cache_errors = Cardinality(failing) ]
                           /\ UNCHANGED created

\* ------------------------------------------------------------ specification

Init ==
    /\ remote = [s \in Sessions |-> << >>]
    /\ fullPageHasNext \in BOOLEAN
    /\ messages = [s \in Sessions |-> None]
    /\ last_page = [s \in Sessions |-> None]
    /\ page_token = [s \in Sessions |-> None]
    /\ sync = [p \in Procs |-> IdleSync]
    /\ result = [p \in Procs |-> NoResult]
    /\ sealedAnswered = [s \in Sessions |-> << >>]
    /\ lastOk = [s \in Sessions |-> None]
    /\ client = FALSE
    /\ chat_id = None
    /\ watcher = IdleWatcher
    /\ last_activities = [s \in Sessions |-> None]
    /\ notifications = [s \in Sessions |-> << >>]
    /\ live = { }
    /\ created = 0
    /\ sessions_file = << >>
    /\ aliases_file = << >>
    /\ cmd = NoCommand
    /\ current_session = None
    /\ handler = IdleHandler

\* A foreground command at a time (activities fetch, activities list) against
\* a remote log that grows.
Next ==
    \/ \E s \in Sessions, shape \in SyncShapes :
          RemoteAppend(s, shape, MaxActivities) /\ UNCHANGED << botVars, rosterVars >>
    \/ \E s \in Sessions : FetchStart("fg", s) /\ UNCHANGED << botVars, rosterVars >>
    \/ FetchPage("fg") /\ UNCHANGED << botVars, rosterVars >>
    \/ FetchPageError("fg") /\ UNCHANGED << botVars, rosterVars >>
    \/ FetchFinish("fg") /\ UNCHANGED << botVars, rosterVars >>
    \/ \E s \in Sessions : ListCached("fg", s) /\ UNCHANGED << botVars, rosterVars >>

Spec == Init /\ [][Next]_vars

\* The bot process: /auth commands and the watcher task, whose calls of
\* fetch_activities run on the background path, against a remote log that grows.
NextBot ==
    \/ \E s \in Sessions, shape \in ActivityShapes :
          RemoteAppend(s, shape, MaxBotActivities) /\ UNCHANGED << botVars, rosterVars >>
    \/ \E chat \in Chats, key \in Keys : Auth(chat, key) /\ UNCHANGED rosterVars
    \/ WatcherTick /\ UNCHANGED rosterVars
    \/ WatcherFetch /\ UNCHANGED rosterVars
    \/ FetchPage("bg") /\ UNCHANGED << botVars, rosterVars >>
    \/ FetchPageError("bg") /\ UNCHANGED << botVars, rosterVars >>
    \/ FetchFinish("bg") /\ UNCHANGED << botVars, rosterVars >>
    \/ WatcherFetchFailed /\ UNCHANGED rosterVars
    \/ WatcherNotify /\ UNCHANGED rosterVars

SpecBot == Init /\ [][NextBot]_vars

\* The steps of the watcher task: the interval fires, and each await of the
\* sweep comes back, with an answer or with an error.
WatcherProgress ==
    \/ WatcherTick /\ UNCHANGED rosterVars
    \/ WatcherFetch /\ UNCHANGED rosterVars
    \/ FetchPage("bg") /\ UNCHANGED << botVars, rosterVars >>
    \/ FetchPageError("bg") /\ UNCHANGED << botVars, rosterVars >>
    \/ FetchFinish("bg") /\ UNCHANGED << botVars, rosterVars >>
    \/ WatcherFetchFailed /\ UNCHANGED rosterVars
    \/ WatcherNotify /\ UNCHANGED rosterVars

\* The activities of the service that the watcher tells apart: an agent's
\* with and without a notification text, and a user's.
WatcherShapes ==
    { << "agent", { "agentMessaged" } >>,
      << "agent", { "sessionCompleted" } >>,
      << "user", { "userMessaged" } >> }

\* The bot and the service with the steps of the watcher task.
NextBotLive ==
    \/ \E s \in Sessions, shape \in WatcherShapes :
          RemoteAppend(s, shape, MaxBotActivities) /\ UNCHANGED << botVars, rosterVars >>
    \/ \E chat \in Chats, key \in Keys : Auth(chat, key) /\ UNCHANGED rosterVars
    \/ WatcherProgress

\* The bot with a watcher task that keeps running: the loop of the task never
\* ends and the runtime keeps scheduling it.
SpecBotLive == Init /\ [][NextBotLive]_vars /\ WF_vars(WatcherProgress)

\* The command line at work on the roster and the aliases: one command at a
\* time, while sessions come and go on the service.
NextRoster ==
    \/ RemoteCreate /\ UNCHANGED << activityVars, botVars, current_session >>
    \/ \E id \in live : RemoteDelete(id) /\ UNCHANGED << activityVars, botVars, current_session >>
    \/ SessionsList /\ UNCHANGED << activityVars, botVars, current_session >>
    \/ \E alias \in { None } \cup { Some(a) : a \in CreateAliases } :
          SessionsCreate(alias) /\ UNCHANGED << activityVars, botVars, current_session >>
    \/ \E identifier \in DeleteIdentifiers :
          SessionsDelete(identifier) /\ UNCHANGED << activityVars, botVars, current_session >>
    \/ \E alias_name \in AliasNames, number \in 0..MaxSessions :
          AliasCreate(alias_name, number) /\ UNCHANGED << activityVars, botVars, current_session >>
    \/ \E alias_name \in AliasNames :
          AliasDelete(alias_name) /\ UNCHANGED << activityVars, botVars, current_session >>

SpecRoster == Init /\ [][NextRoster]_vars

\* Sessions are created with or without an alias, aliased and deleted, from
\* the command line and from the bot, on the same roster and aliases.
NextRosterBot ==
    \/ \E alias \in { None } \cup { Some(a) : a \in CreateAliases } :
          SessionsCreate(alias) /\ UNCHANGED << activityVars, botVars, current_session >>
    \/ \E alias_name \in AliasNames, number \in 0..MaxSessions :
          AliasCreate(alias_name, number) /\ UNCHANGED << activityVars, botVars, current_session >>
    \/ \E identifier \in DeleteIdentifiers :
          SessionsDelete(identifier) /\ UNCHANGED << activityVars, botVars, current_session >>
    \/ \E chat \in RosterChats, key \in Keys : BotAuth(chat, key)
    \/ \E identifier \in BotIdentifiers :
          BotDelete(identifier) /\ UNCHANGED << activityVars, botVars, current_session >>
    \/ SessionsList /\ UNCHANGED << activityVars, botVars, current_session >>
    \/ BotList /\ UNCHANGED << activityVars, botVars, current_session >>

SpecRosterBot == Init /\ [][NextRosterBot]_vars

\* The bot's /delete with cache files that can fail, after sessions were
\* created with the CLI.
NextCacheFault ==
    \/ \E alias \in { None } \cup { Some(a) : a \in CreateAliases } :
          SessionsCreate(alias) /\ UNCHANGED << activityVars, botVars, current_session >>
    \/ \E chat \in RosterChats, key \in Keys : BotAuth(chat, key)
    \/ \E identifier \in BotIdentifiers, failing \in CacheFailures :
          BotDeleteIO(identifier, failing) /\ UNCHANGED << activityVars, botVars, current_session >>

SpecCacheFault == Init /\ [][NextCacheFault]_vars

\* The bot's /s and plain messages, after sessions were created with the CLI.
NextCurrent ==
    \/ \E alias \in { None } \cup { Some(a) : a \in CreateAliases } :
          SessionsCreate(alias) /\ UNCHANGED << activityVars, botVars, current_session >>
    \/ \E chat \in RosterChats, key \in Keys : BotAuth(chat, key)
    \/ \E identifier \in BotIdentifiers :
          BotS(identifier) /\ UNCHANGED << activityVars, botVars >>
    \/ BotMessage /\ UNCHANGED << activityVars, botVars >>

SpecCurrent == Init /\ [][NextCurrent]_vars

\* The alias that sessions create is given before the bot is used.
GateAlias == << "@", "a" >>

\* The chats that send /auth: the other chats never authenticate.
AuthChats == { chat \in Chats : \A other \in Chats : chat <= other }

\* The bot with two chats: /auth by one of them, the gated commands /list, /delete and /s, plain
\* messages and the watcher, after sessions were created with the CLI.
NextGate ==
    \/ SessionsCreate(Some(GateAlias)) /\ UNCHANGED << activityVars, botVars, current_session >>
    \/ \E chat \in AuthChats, key \in Keys : BotAuth(chat, key)
    \/ \E chat \in Chats :
          AnswerList(chat) /\ UNCHANGED << activityVars, botVars, current_session >>
    \/ \E chat \in Chats, identifier \in BotIdentifiers :
          AnswerDelete(chat, identifier) /\ UNCHANGED << activityVars, botVars, current_session >>
    \/ \E chat \in Chats, identifier \in BotIdentifiers :
          AnswerS(chat, identifier) /\ UNCHANGED << activityVars, botVars >>
    \/ \E chat \in Chats : MessageHandler(chat) /\ UNCHANGED << activityVars, botVars >>
    \/ WatcherProgress

SpecGate == Init /\ [][NextGate]_vars

\* The /alias handler of the bot beside /auth and the watcher, after sessions
\* were created with the CLI.
NextAlias ==
    \/ SessionsCreate(Some(GateAlias)) /\ UNCHANGED << activityVars, botVars, current_session >>
    \/ \E chat \in Chats, key \in Keys : BotAuth(chat, key)
    \/ \E chat \in Chats, alias_name \in AliasNames, identifier \in BotIdentifiers :
          AliasCheck(chat, alias_name, identifier)
             /\ UNCHANGED << activityVars, client, chat_id, watcher, last_activities,
                             notifications >>
    \/ AliasUnwrap
          /\ UNCHANGED << activityVars, client, chat_id, watcher, last_activities,
                          notifications >>
    \/ WatcherProgress

SpecAlias == Init /\ [][NextAlias]_vars

\* The commands of the CLI and of the bot that write the roster or the alias
\* map: list, create, alias, delete, and the bot's /list, /alias and /delete.
NextIntegrity ==
    \/ \E alias \in { None, Some(GateAlias) } :
          SessionsCreate(alias) /\ UNCHANGED << activityVars, botVars, current_session >>
    \/ SessionsList /\ UNCHANGED << activityVars, botVars, current_session >>
    \/ \E alias_name \in AliasNames, number \in 1..MaxSessions :
          AliasCreate(alias_name, number) /\ UNCHANGED << activityVars, botVars, current_session >>
    \/ \E alias_name \in AliasNames :
          AliasDelete(alias_name) /\ UNCHANGED << activityVars, botVars, current_session >>
    \/ \E identifier \in DeleteIdentifiers :
          SessionsDelete(identifier) /\ UNCHANGED << activityVars, botVars, current_session >>
    \/ \E chat \in AuthChats, key \in Keys : BotAuth(chat, key)
    \/ BotList /\ UNCHANGED << activityVars, botVars, current_session >>
    \/ \E identifier \in BotIdentifiers :
          BotDelete(identifier) /\ UNCHANGED << activityVars, botVars, current_session >>
    \/ \E chat \in AuthChats, alias_name \in CreateAliases, identifier \in BotIdentifiers :
          AliasCheck(chat, alias_name, identifier)
             /\ UNCHANGED << activityVars, client, chat_id, watcher, last_activities,
                             notifications >>
    \/ AliasUnwrap
          /\ UNCHANGED << activityVars, client, chat_id, watcher, last_activities,
                          notifications >>

SpecIntegrity == Init /\ [][NextIntegrity]_vars

\* The identifiers that /ok is given: none, or the first session.
OkIdentifiers == { << >>, << "1" >> }

\* The current session of the bot beside the commands that remove sessions
\* from the roster: the deletions of the CLI and of the bot, the list of the
\* CLI, and sessions that another client deletes on the service.
NextDangling ==
    \/ SessionsCreate(Some(GateAlias)) /\ UNCHANGED << activityVars, botVars, current_session >>
    \/ \E id \in live : RemoteDelete(id) /\ UNCHANGED << activityVars, botVars, current_session >>
    \/ \E chat \in AuthChats, key \in Keys : BotAuth(chat, key)
    \/ \E identifier \in BotIdentifiers :
          BotS(identifier) /\ UNCHANGED << activityVars, botVars >>
    \/ \E identifier \in DeleteIdentifiers :
          /\ SessionsDelete(identifier)
          /\ current_session' = CurrentSessionAfter(current_session, sessions_file')
          /\ UNCHANGED << activityVars, botVars >>
    \/ \E identifier \in BotIdentifiers :
          /\ BotDelete(identifier)
          /\ current_session' = CurrentSessionAfter(current_session, sessions_file')
          /\ UNCHANGED << activityVars, botVars >>
    \/ /\ SessionsList
       /\ current_session' = CurrentSessionAfter(current_session, sessions_file')
       /\ UNCHANGED << activityVars, botVars >>
    \/ BotMessage /\ UNCHANGED << activityVars, botVars >>
    \/ \E identifier \in OkIdentifiers :
          AnswerOk(NoChat, identifier) /\ UNCHANGED << activityVars, botVars >>

SpecDangling == Init /\ [][NextDangling]_vars

\* The activities the service holds in the specifications of the single writes.
MaxSplitActivities == 3

\* fetch_activities with its file operations one by one, any of the last two
\* writes failing, and list_cached_activities.
NextStop ==
    \/ \E s \in Sessions, shape \in SyncShapes :
          RemoteAppend(s, shape, MaxSplitActivities) /\ UNCHANGED << botVars, rosterVars >>
    \/ \E s \in Sessions : SyncReadStable("fg", s) /\ UNCHANGED << botVars, rosterVars >>
    \/ SyncReadToken("fg") /\ UNCHANGED << botVars, rosterVars >>
    \/ FetchPage("fg") /\ UNCHANGED << botVars, rosterVars >>
    \/ FetchPageError("fg") /\ UNCHANGED << botVars, rosterVars >>
    \/ SyncWriteStable("fg") /\ UNCHANGED << botVars, rosterVars >>
    \/ SyncWriteTail("fg") /\ UNCHANGED << botVars, rosterVars >>
    \/ SyncWriteToken("fg") /\ UNCHANGED << botVars, rosterVars >>
    \/ SyncStop("fg") /\ UNCHANGED << botVars, rosterVars >>
    \/ \E s \in Sessions : ListCached("fg", s) /\ UNCHANGED << botVars, rosterVars >>

SpecStop == Init /\ [][NextStop]_vars

\* The activities of the race: the sync engine never looks inside them.
RaceShape == << "agent", { "agentMessaged" } >>

\* Two processes run fetch_activities on the cache files of session s1, their
\* file operations interleaved.
NextRace ==
    \/ RemoteAppend("s1", RaceShape, MaxSplitActivities)
          /\ UNCHANGED << botVars, rosterVars >>
    \/ \E p \in Procs : SyncReadStable(p, "s1") /\ UNCHANGED << botVars, rosterVars >>
    \/ \E p \in Procs : SyncReadToken(p) /\ UNCHANGED << botVars, rosterVars >>
    \/ \E p \in Procs : FetchPage(p) /\ UNCHANGED << botVars, rosterVars >>
    \/ \E p \in Procs : FetchPageError(p) /\ UNCHANGED << botVars, rosterVars >>
    \/ \E p \in Procs : SyncWriteStable(p) /\ UNCHANGED << botVars, rosterVars >>
    \/ \E p \in Procs : SyncWriteTail(p) /\ UNCHANGED << botVars, rosterVars >>
    \/ \E p \in Procs : SyncWriteToken(p) /\ UNCHANGED << botVars, rosterVars >>

SpecRace == Init /\ [][NextRace]_vars

\* The activities the service holds in the specification of the client lock.
MaxLockActivities == 1

\* The watcher task and the /auth and /list handlers of the bot, which share
\* the client lock.
NextLock ==
    \/ \E s \in Sessions, shape \in ActivityShapes :
          RemoteAppend(s, shape, MaxLockActivities) /\ UNCHANGED << botVars, rosterVars >>
    \/ \E chat \in Chats, key \in Keys : Auth(chat, key) /\ UNCHANGED rosterVars
    \/ BotList /\ UNCHANGED << activityVars, botVars, current_session >>
    \/ WatcherTick /\ UNCHANGED rosterVars
    \/ WatcherFetch /\ UNCHANGED rosterVars
    \/ FetchPage("bg") /\ UNCHANGED << botVars, rosterVars >>
    \/ FetchPageError("bg") /\ UNCHANGED << botVars, rosterVars >>
    \/ FetchFinish("bg") /\ UNCHANGED << botVars, rosterVars >>
    \/ WatcherFetchFailed /\ UNCHANGED rosterVars
    \/ WatcherNotify /\ UNCHANGED rosterVars

SpecLock == Init /\ [][NextLock]_vars

\* The resolver at work on every roster and alias map over the sessions of
\* the service: a command resolves an identifier and rewrites nothing.
Rosters(ids) == UNION { Orderings(known) : known \in SUBSET ids }

AliasMaps(names, ids) == UNION { [known -> ids] : known \in SUBSET names }

InitResolve ==
    /\ remote = [s \in Sessions |-> << >>]
    /\ fullPageHasNext \in BOOLEAN
    /\ messages = [s \in Sessions |-> None]
    /\ last_page = [s \in Sessions |-> None]
    /\ page_token = [s \in Sessions |-> None]
    /\ sync = [p \in Procs |-> IdleSync]
    /\ result = [p \in Procs |-> NoResult]
    /\ sealedAnswered = [s \in Sessions |-> << >>]
    /\ lastOk = [s \in Sessions |-> None]
    /\ client = FALSE
    /\ chat_id = None
    /\ watcher = IdleWatcher
    /\ last_activities = [s \in Sessions |-> None]
    /\ notifications = [s \in Sessions |-> << >>]
    /\ created = MaxRoster
    /\ live = { IdPool[i] : i \in 1..MaxRoster }
    /\ sessions_file \in Rosters(live)
    /\ aliases_file \in AliasMaps(CreateAliases, live)
    /\ cmd = NoCommand
    /\ current_session = None
    /\ handler = IdleHandler

NextResolve ==
    \E identifier \in Identifiers :
        ResolveCommand(identifier) /\ UNCHANGED << activityVars, botVars, current_session >>

SpecResolve == InitResolve /\ [][NextResolve]_vars

\* ------------------------------------------------- sync engine: properties

\* What a fetch of the whole log from the first page returns, page after page.
RECURSIVE FromScratch(_, _)
FromScratch(log, k) ==
    PageOf(log, k) \o (IF HasNext(log, k) THEN FromScratch(log, k + 1) ELSE << >>)

RECURSIVE Flatten(_)
Flatten(pages) == IF pages = << >> THEN << >> ELSE Head(pages) \o Flatten(Tail(pages))

\* The path p has just returned from a successful fetch_activities of session s.
FetchedOk(p, s) ==
    /\ sync[p].pc = "idle"
    /\ result[p].op = "fetch" /\ result[p].status = "ok" /\ result[p].session = s

\* The step in which fetch_activities of path p writes the cache and returns.
FinishStep(p) == sync[p].pc = "write" /\ sync'[p].pc = "idle"

\* The cache the call of path p started from.
CallCache(p) == Unwrap(sync[p].cacheAtCall)

\* The log the cache of the call's start held: stable followed by tail.
CallCached(p) ==
    (IF IsSome(CallCache(p).messages) THEN Unwrap(CallCache(p).messages) ELSE << >>)
    \o (IF IsSome(CallCache(p).last_page) THEN Unwrap(CallCache(p).last_page) ELSE << >>)

\* C1: every successful sync returns exactly the remote log as it stood at
\* the sync's last page request (each activity once, none missing, in server
\* order), which is what a fetch from the first page returns at that moment.
C1_SyncReturnsWholeLog ==
    \A p \in Procs :
        (result[p].op = "fetch" /\ result[p].status = "ok") =>
            /\ result[p].activities = result[p].remoteSeen
            /\ result[p].activities = FromScratch(result[p].remoteSeen, 0)

\* A sync that resumed from a persisted token, found no new page (one
\* request) and returned a log of more than one page.
C1_Witness ==
    /\ FetchedOk("fg", "s1")
    /\ IsSome(CallCache("fg").page_token)
    /\ sync["fg"].requests = 1
    /\ Len(result["fg"].activities) > PageSize

\* C2: sealing monotonicity: in every step the persisted stable list before
\* the step is a prefix of the persisted stable list after it.
C2_StableMonotonic ==
    [][\A s \in Sessions : IsPrefix(ReadStable(s), ReadStable(s)')]_vars

\* A sync that started from a non-empty stable list and extended it.
C2_Witness ==
    /\ FetchedOk("fg", "s1")
    /\ IsSome(CallCache("fg").messages)
    /\ Len(Unwrap(CallCache("fg").messages)) > 0
    /\ Len(ReadStable("s1")) > Len(Unwrap(CallCache("fg").messages))

\* C3: pagination idempotence: a successful sync that saw the same remote log
\* as the previous successful sync of the session returns the same list and
\* leaves stable, tail and continuation token as that sync persisted them.
C3_Idempotent ==
    [][\A p \in Procs :
          LET s == sync[p].session IN
          (/\ FinishStep(p)
           /\ IsSome(lastOk[s])
           /\ Unwrap(lastOk[s]).remoteSeen = sync[p].remoteSeen)
          => /\ result'[p].status = "ok"
             /\ result'[p].activities = Unwrap(lastOk[s]).activities
             /\ [ messages |-> messages'[s], last_page |-> last_page'[s],
                  page_token |-> page_token'[s] ] = Unwrap(lastOk[s]).cache
             /\ Len(Unwrap(messages'[s])) = Len(Unwrap(Unwrap(lastOk[s]).cache.messages))]_vars

\* A second sync of an unchanged log of more than one page has returned.
C3_Witness ==
    /\ FetchedOk("fg", "s1")
    /\ IsSome(CallCache("fg").messages)
    /\ IsSome(CallCache("fg").page_token)
    /\ CallCached("fg") = result["fg"].remoteSeen
    /\ Len(result["fg"].remoteSeen) > PageSize

\* The remote log grew by one entry on its tail page, and no page was sealed.
TailGainedOne(before, after) ==
    /\ Len(after) = Len(before) + 1
    /\ IsPrefix(before, after)
    /\ TailPage(after) = TailPage(before)

\* C4: tail volatility: when the remote tail page gained one entry and no
\* page was sealed since the previous successful sync, the sync returns the
\* previous log with exactly that entry appended, leaves persisted stable
\* unchanged and replaces the persisted tail by the grown page.
C4_TailVolatility ==
    [][\A p \in Procs :
          LET s == sync[p].session IN
          (/\ FinishStep(p)
           /\ IsSome(lastOk[s])
           /\ TailGainedOne(Unwrap(lastOk[s]).remoteSeen, sync[p].remoteSeen))
          => LET prev == Unwrap(lastOk[s])
                 entry == sync[p].remoteSeen[Len(sync[p].remoteSeen)]
             IN  /\ result'[p].activities = Append(prev.activities, entry)
                 /\ messages'[s] = prev.cache.messages
                 /\ messages'[s] = messages[s]
                 /\ last_page'[s] = Some(Append(Unwrap(prev.cache.last_page), entry))]_vars

\* A sync has returned a log one longer than the cached one, with a
\* non-empty stable list that it left alone.
C4_Witness ==
    /\ FetchedOk("fg", "s1")
    /\ IsSome(CallCache("fg").messages)
    /\ Len(ReadStable("s1")) > 0
    /\ messages["s1"] = CallCache("fg").messages
    /\ Len(result["fg"].activities) = Len(CallCached("fg")) + 1

\* C5: after a successful sync, persisted stable is the in-order
\* concatenation of all pages the service has answered with a next-page
\* token, and persisted tail is the page it answered without one in this sync.
C5_StableIsSealedPages ==
    \A p \in Procs : \A s \in Sessions :
        FetchedOk(p, s) =>
            /\ messages[s] = Some(Flatten(sealedAnswered[s]))
            /\ last_page[s] = Some(PageOf(result[p].remoteSeen,
                                          TailPage(result[p].remoteSeen)))
            /\ Len(ReadStable(s)) = PageSize * Len(sealedAnswered[s])

\* One sealed page and a full tail page are persisted.
C5_Witness ==
    /\ FetchedOk("fg", "s1")
    /\ Len(sealedAnswered["s1"]) >= 1
    /\ Len(ReadStable("s1")) = PageSize
    /\ Len(ReadTail("s1")) = PageSize

\* The token that requests page k: none for the first page.
TokenOfPage(k) == IF k = 0 THEN None ELSE Some(k)

\* C6: after a successful sync the persisted continuation token is the token
\* that requested the page now stored as tail, and it is absent exactly when
\* that page is the first page.
C6_TokenNamesTail ==
    \A p \in Procs : \A s \in Sessions :
        FetchedOk(p, s) =>
            /\ page_token[s] = TokenOfPage(TailPage(result[p].remoteSeen))
            /\ (page_token[s] = None) <=> (TailPage(result[p].remoteSeen) = 0)
            /\ PageOf(result[p].remoteSeen, TokenPage(ReadPageToken(s))) = ReadTail(s)

\* A token is persisted and the tail it names is not empty.
C6_Witness ==
    /\ FetchedOk("fg", "s1")
    /\ IsSome(page_token["s1"])
    /\ Len(ReadTail("s1")) > 0

\* C7: while a sync is in its page loop, and after it has returned an error,
\* persisted stable, tail and continuation token are as before the call.
C7_FailedSyncLeavesCache ==
    \A p \in Procs :
        (/\ IsSome(sync[p].cacheAtCall)
         /\ \/ sync[p].pc # "idle"
            \/ result[p].op = "fetch" /\ result[p].status = "err")
        => /\ CacheOf(sync[p].session) = CallCache(p)
           /\ ReadPageToken(sync[p].session) = CallCache(p).page_token

\* A sync that resumed from a token failed after a sealed page was received.
C7_Witness ==
    /\ sync["fg"].pc = "idle"
    /\ result["fg"].op = "fetch" /\ result["fg"].status = "err"
    /\ sync["fg"].requests >= 2
    /\ IsSome(CallCache("fg").page_token)

\* C8: list_cached_activities issues no request, changes no persisted record
\* and returns persisted stable followed by persisted tail; right after a
\* successful sync of the session it returns what that sync returned.
C8_ListCached ==
    [][\A p \in Procs :
          (result'[p].op = "list_cached" /\ sync[p].pc = "idle" /\ sync'[p].pc = "idle")
          => LET s == result'[p].session IN
             /\ UNCHANGED << messages, last_page, page_token, sync, sealedAnswered >>
             /\ result'[p].status = "ok"
             /\ result'[p].activities = ReadStable(s) \o ReadTail(s)
             /\ (~IsSome(messages[s]) /\ ~IsSome(last_page[s]))
                    => result'[p].activities = << >>
             /\ FetchedOk(p, s) => result'[p].activities = result[p].activities]_vars

\* The cached log of more than one page, with a non-empty stable part, was
\* read back and is what the last sync of the session returned.
C8_Witness ==
    /\ result["fg"].op = "list_cached"
    /\ result["fg"].session = "s1"
    /\ Len(ReadStable("s1")) > 0
    /\ Len(ReadTail("s1")) > 0
    /\ IsSome(lastOk["s1"])
    /\ result["fg"].activities = Unwrap(lastOk["s1"]).activities

\* ----------------------------------------------------- watcher: properties

\* How many notifications of session s announce the activity id.
Announced(s, id) ==
    Cardinality({ i \in 1..Len(notifications[s]) : notifications[s][i].id = id })

\* The activity of session s with the given id.
ActivityOf(s, id) == CHOOSE a \in { remote[s][i] : i \in 1..Len(remote[s]) } : a.id = id

\* The watcher has handled the log that its last fetch_activities returned.
Handled == /\ watcher.pc \in { "wait", "next" }
           /\ result["bg"].op = "fetch" /\ result["bg"].status = "ok"

HandleStep(s) ==
    /\ watcher.pc = "fetching" /\ watcher'.pc # "fetching"
    /\ result["bg"].status = "ok"
    /\ Head(watcher.queue) = s

\* C10: a tick emits at most one notification per session; a notification is
\* emitted only for a last agent-originated activity that differs from the
\* session's cursor; a session without agent-originated activity is skipped
\* with its cursor unchanged.
C10_AtMostOnePerTick ==
    [][\A s \in Sessions :
          LET last == LastAgentActivity(result["bg"].activities) IN
          /\ watcher'.emitted[s] <= 1
          /\ Len(notifications'[s]) <= Len(notifications[s]) + 1
          /\ notifications'[s] # notifications[s] =>
                /\ HandleStep(s)
                /\ IsSome(last)
                /\ last_activities[s] # Some(Unwrap(last).id)
          /\ (HandleStep(s) /\ IsSome(last) /\ last_activities[s] = Some(Unwrap(last).id)) =>
                /\ notifications'[s] = notifications[s]
                /\ last_activities'[s] = last_activities[s]
          /\ (HandleStep(s) /\ ~IsSome(last)) =>
                /\ notifications'[s] = notifications[s]
                /\ last_activities'[s] = last_activities[s]]_vars

\* A tick has ended in which s1 was announced once and s2, whose log holds no
\* agent-originated activity, was skipped.
C10_Witness ==
    /\ watcher.pc = "wait"
    /\ watcher.emitted["s1"] = 1
    /\ watcher.emitted["s2"] = 0
    /\ result["bg"].status = "ok" /\ result["bg"].session = "s2"
    /\ Len(result["bg"].activities) > 0
    /\ ~IsSome(LastAgentActivity(result["bg"].activities))
    /\ ~IsSome(last_activities["s2"])

\* The step in which the watcher takes the error returned for session s.
FailStep(s) ==
    /\ watcher.pc = "fetching" /\ watcher'.pc # "fetching"
    /\ result["bg"].status = "err"
    /\ Head(watcher.queue) = s

\* C11: when fetch_activities fails for a session during a tick, no cursor
\* moves, no notification is emitted and no cache file changes in that step;
\* the sweep goes on with the sessions still queued (or the tick ends when
\* none is left), so the error stays inside the loop.
C11_FailedSessionSkipped ==
    [][\A s \in Sessions : FailStep(s) =>
          /\ last_activities' = last_activities
          /\ notifications' = notifications
          /\ watcher'.emitted = watcher.emitted
          /\ << messages', last_page', page_token' >> = << messages, last_page, page_token >>
          /\ watcher'.queue = Tail(watcher.queue)
          /\ watcher'.pc = IF Tail(watcher.queue) # << >> THEN "next" ELSE "wait"]_vars

\* A tick has ended in which the sync of s1 failed (s1 was never synced, its
\* agent message is not announced and its cursor is unset) and s2, handled
\* after it, was announced.
C11_Witness ==
    /\ watcher.pc = "wait"
    /\ watcher.emitted["s1"] = 0
    /\ watcher.emitted["s2"] = 1
    /\ ~IsSome(lastOk["s1"])
    /\ ~IsSome(last_activities["s1"])
    /\ notifications["s1"] = << >>
    /\ IsSome(LastAgentActivity(remote["s1"]))
    /\ IsSome(NotificationMessage(Unwrap(LastAgentActivity(remote["s1"]))))

\* ------------------------------------------------------ resolver: properties

\* The last command resolved an identifier, kept in cmd with its outcome.
Resolved == cmd.op = "resolve"

\* C12: on an empty roster every identifier, whatever its shape, fails with
\* EmptyRoster.
C12_EmptyRosterFirst ==
    (Resolved /\ sessions_file = << >>) => cmd.status = "EmptyRoster"

\* An alias that is in the alias map was resolved on an empty roster.
C12_Witness ==
    /\ Resolved /\ sessions_file = << >>
    /\ cmd.identifier \in DOMAIN aliases_file
    /\ cmd.status = "EmptyRoster"

\* C13: on a non-empty roster an identifier starting with '@' fails with
\* AliasNotFound when the alias map has no such key, with StaleAlias when
\* the mapped id is not in the roster, and otherwise gives the mapped id with
\* its 1-based position in the roster.
C13_AliasResolution ==
    (Resolved /\ sessions_file # << >> /\ StartsWith(cmd.identifier, "@")) =>
        IF cmd.identifier \notin DOMAIN aliases_file
        THEN cmd.status = "AliasNotFound"
        ELSE IF aliases_file[cmd.identifier] \notin Ids(sessions_file)
        THEN cmd.status = "StaleAlias"
        ELSE /\ cmd.status = "ok"
             /\ cmd.id = aliases_file[cmd.identifier]
             /\ cmd.index \in 1..Len(sessions_file)
             /\ sessions_file[cmd.index] = cmd.id
             /\ \A i \in 1..(cmd.index - 1) : sessions_file[i] # cmd.id

\* An alias was resolved to the first entry of a roster of two.
C13_Witness ==
    /\ Resolved /\ StartsWith(cmd.identifier, "@")
    /\ Len(sessions_file) = 2
    /\ cmd.status = "ok" /\ cmd.index = 1
    /\ sessions_file[1] = aliases_file[cmd.identifier]

C15_LiteralResolution ==
    (Resolved /\ sessions_file # << >> /\ ~StartsWith(cmd.identifier, "@")
       /\ ~IsSome(ParseUsize(cmd.identifier))) =>
        IF cmd.identifier \in Ids(sessions_file)
        THEN /\ cmd.status = "ok"
             /\ cmd.id = cmd.identifier
             /\ cmd.index \in 1..Len(sessions_file)
             /\ sessions_file[cmd.index] = cmd.identifier
        ELSE cmd.status = "SessionNotFound"

\* A raw id was resolved to the second entry of the roster.
C15_Witness ==
    /\ Resolved /\ cmd.status = "ok"
    /\ ~StartsWith(cmd.identifier, "@") /\ ~IsSome(ParseUsize(cmd.identifier))
    /\ cmd.index = 2 /\ sessions_file[2] = cmd.identifier

\* -------------------------------------------- roster and aliases: properties

\* resolve over the cache files as they are before and after the step.
ResolveBefore(identifier) ==
    resolve_session_identifier_and_index(identifier, sessions_file, aliases_file)

ResolveAfter(identifier) ==
    resolve_session_identifier_and_index(identifier, sessions_file', aliases_file')

\* The step of a command that ended well.
CommandStep(op) == cmd'.op = op /\ cmd'.status = "ok"

\* C16: when sessions list or sessions create with an alias adds sessions to
\* the roster and removes none, every index that was valid before the step
\* resolves to the same session after it.
C16_IndexStableUnderAppend ==
    [][((CommandStep("list") \/ CommandStep("create"))
          /\ Len(sessions_file') > Len(sessions_file)
          /\ Ids(sessions_file) \subseteq Ids(sessions_file')) =>
         \A k \in 1..Len(sessions_file) :
            /\ ResolveBefore(to_string(k)) = Ok(sessions_file[k], k)
            /\ ResolveAfter(to_string(k)) = ResolveBefore(to_string(k))]_vars

\* sessions list has pushed a session on a roster of one: the new session
\* came first in the list received and is second in the roster.
C16_Witness ==
    /\ cmd.op = "list" /\ cmd.status = "ok" /\ cmd.pushed = 1
    /\ Len(sessions_file) = 2 /\ Len(cmd.list) = 2
    /\ sessions_file[2] = cmd.list[1]

\* C17: when sessions delete removes the session at index k, every session
\* that was at an index j > k resolves at j - 1, every session at an index
\* j < k keeps its index, and the deleted id is no longer in the roster.
C17_IndexShiftUnderDeletion ==
    [][CommandStep("delete") =>
         LET k == cmd'.index IN
         /\ ResolveBefore(to_string(k)) = Ok(cmd'.id, k)
         /\ Len(sessions_file') = Len(sessions_file) - 1
         /\ \A j \in 1..Len(sessions_file) :
               /\ j < k => ResolveAfter(to_string(j)) = Ok(sessions_file[j], j)
               /\ j > k => ResolveAfter(to_string(j - 1)) = Ok(sessions_file[j], j - 1)]_vars

\* The first of two sessions was deleted: the other one is now the first.
C17_Witness ==
    /\ cmd.op = "delete" /\ cmd.status = "ok" /\ cmd.index = 1
    /\ Len(sessions_file) = 1
    /\ sessions_file[1] # cmd.id

\* The step creates, re-creates or deletes the alias.
Rewrites(alias_name) ==
    /\ cmd'.op \in { "alias", "create", "unalias" }
    /\ cmd'.status = "ok"
    /\ cmd'.identifier = alias_name

\* C18: the step that creates an alias for the index k leaves it resolving
\* to the session that k resolved to, at k; in every later step that does not
\* create or delete the alias again and leaves its session in the roster, the
\* alias stays and resolves to that session at its position in the roster.
C18_AliasRoundTrip ==
    [][/\ CommandStep("alias") =>
            /\ ResolveBefore(to_string(cmd'.index)).status = "ok"
            /\ ResolveAfter(cmd'.identifier)
                  = Ok(ResolveBefore(to_string(cmd'.index)).id, cmd'.index)
       /\ \A alias_name \in DOMAIN aliases_file :
            (~Rewrites(alias_name) /\ aliases_file[alias_name] \in Ids(sessions_file')) =>
                LET r == ResolveAfter(alias_name) IN
                /\ r.status = "ok"
                /\ r.id = aliases_file[alias_name]
                /\ r.index \in 1..Len(sessions_file')
                /\ sessions_file'[r.index] = r.id]_vars

\* An alias was created for the index 2 and resolves to the second session.
C18_Witness ==
    /\ cmd.op = "alias" /\ cmd.status = "ok" /\ cmd.index = 2
    /\ resolve_session_identifier_and_index(cmd.identifier, sessions_file, aliases_file)
         = Ok(sessions_file[2], 2)

\* C20: after sessions list has received the list L, whatever L is, the
\* roster holds exactly the sessions of L (the cached ones that are in L, in
\* their order, then the others in the order of L) and every alias maps to a
\* session of L.
C20_ListReconciles ==
    [][CommandStep("list") =>
         LET L == cmd'.list
             Live(id) == id \in Ids(L)
             Unseen(id) == id \notin Ids(sessions_file)
         IN  /\ Ids(sessions_file') = Ids(L)
             /\ sessions_file' = SelectSeq(sessions_file, Live) \o SelectSeq(L, Unseen)
             /\ \A a \in DOMAIN aliases_file' : aliases_file'[a] \in Ids(L)]_vars

\* C19: when a session is deleted, from the command line or from the bot,
\* its id is no longer in the roster, every alias that mapped to it is gone
\* (it resolves to AliasNotFound while the roster is not empty), no alias is
\* added and the aliases of the other sessions are as they were.
C19_DeletionRemovesAliases ==
    [][(CommandStep("delete") \/ CommandStep("bot_delete")) =>
         /\ cmd'.id \notin Ids(sessions_file')
         /\ DOMAIN aliases_file' \subseteq DOMAIN aliases_file
         /\ \A a \in DOMAIN aliases_file :
               IF aliases_file[a] = cmd'.id
               THEN /\ a \notin DOMAIN aliases_file'
                    /\ sessions_file' # << >> => ResolveAfter(a).status = "AliasNotFound"
               ELSE /\ a \in DOMAIN aliases_file'
                    /\ aliases_file'[a] = aliases_file[a]]_vars

\* The bot has deleted the session that @a named: @a is gone and resolves to
\* AliasNotFound, @b still names a session of the roster.
C19_Witness ==
    /\ cmd.op = "bot_delete" /\ cmd.status = "ok"
    /\ cmd.identifier = << "@", "a" >>
    /\ sessions_file # << >>
    /\ << "@", "a" >> \notin DOMAIN aliases_file
    /\ << "@", "b" >> \in DOMAIN aliases_file
    /\ resolve_session_identifier_and_index(<< "@", "a" >>, sessions_file, aliases_file).status
         = "AliasNotFound"
    /\ resolve_session_identifier_and_index(<< "@", "b" >>, sessions_file, aliases_file).status
         = "ok"

\* C21: in every step of sessions list, sessions create, sessions delete,
\* /list and /delete, the sessions that stay in the roster keep their order
\* and the sessions that come in stand after all of them.
C21_RosterNeverReordered ==
    [][(\E op \in { "list", "create", "delete", "bot_list", "bot_delete" } : CommandStep(op)) =>
         LET Stays(id) == id \in Ids(sessions_file')
         IN  IsPrefix(SelectSeq(sessions_file, Stays), sessions_file')]_vars

\* C22: a saved owner is never replaced; the first /auth with the right key
\* saves its chat as the owner, a later one (same chat or another) leaves the
\* owner alone, and an /auth with a wrong key changes neither the owner nor
\* the installed client.
C22_OwnerWriteOnce ==
    [][/\ IsSome(chat_id) => chat_id' = chat_id
       /\ (cmd'.op = "auth" /\ cmd'.status = "ok") =>
              /\ client'
              /\ chat_id' = IF IsSome(chat_id) THEN chat_id ELSE Some(cmd'.chat)
       /\ (cmd'.op = "auth" /\ cmd'.status # "ok") =>
              /\ chat_id' = chat_id
              /\ client' = client]_vars

\* An accepted /auth of a chat that is not the owner has left the owner alone.
C22_Witness ==
    /\ cmd.op = "auth"
    /\ cmd.status = "ok"
    /\ IsSome(chat_id)
    /\ chat_id # Some(cmd.chat)

\* C23: a command whose identifier does not resolve has named an error, has
\* no session to call the service with, and ends with a status other than 0.
C23_ResolveFailureExitsNonZero ==
    (Resolved /\ cmd.status # "ok") =>
        /\ cmd.status # "none"
        /\ cmd.id = << >>
        /\ ExitStatus(cmd) # 0

\* C24: a /delete in which a cache operation failed answers with the cache
\* error, and no session other than the deleted one leaves the roster.
C24_CacheErrorsSurfaced ==
    [][(cmd'.op = "bot_delete" /\ cmd'.cache_errors > 0) =>
          /\ cmd'.status = "CacheIOError"
          /\ Ids(sessions_file) \ { cmd'.id } \subseteq Ids(sessions_file')]_vars

\* C25: while the watcher is in the middle of a sweep the client lock is
\* free, so that the /list handler can take it and call the service.
C25_HandlerCallsDuringSweep ==
    (watcher.pc # "wait") => ENABLED BotList

\* C26: an accepted /s makes the session it resolved the current session and
\* nothing else changes the current session, a /s that fails included; a plain
\* message to the authenticated bot is sent to the current session, and to no
\* session when there is none.
C26_MessageToCurrentSession ==
    [][/\ (cmd'.op = "s" /\ cmd'.status = "ok") => current_session' = Some(cmd'.id)
       /\ ~(cmd'.op = "s" /\ cmd'.status = "ok") => current_session' = current_session
       /\ (cmd'.op = "message" /\ client') =>
              IF IsSome(current_session')
              THEN /\ cmd'.id = Unwrap(current_session')
                   /\ cmd'.status \in { "ok", "remote_error" }
              ELSE /\ cmd'.id = << >>
                   /\ cmd'.status = "NoCurrentSession"]_vars

\* A plain message was sent to the current session while the roster starts
\* with another session.
C26_Witness ==
    /\ cmd.op = "message"
    /\ cmd.status = "ok"
    /\ current_session = Some(cmd.id)
    /\ sessions_file # << >>
    /\ sessions_file[1] # cmd.id

\* No activity stands twice in a list.
NoRepeat(activities) ==
    \A i, j \in 1..Len(activities) : activities[i].id = activities[j].id => i = j

\* C27: wherever a sync has stopped, the files it leaves are consistent: the
\* cached log holds no activity twice, and a sync or a cached read that
\* follows returns every activity of the log once.
C27_WritesAllOrNothing ==
    \A s \in Sessions :
        sync["fg"].pc = "idle" =>
            /\ NoRepeat(CachedActivities(s))
            /\ IsPrefix(CachedActivities(s), remote[s])
            /\ (result["fg"].op = "fetch" /\ result["fg"].status = "ok") =>
                   result["fg"].activities = result["fg"].remoteSeen

\* The other of the two processes.
Other(p) == CHOOSE q \in Procs : q # p

\* C28: a sync that read a stable list holding pages after the page of the
\* token it read (the list as another sync wrote it, the token as it was
\* before that sync replaced it) writes a stable list that holds the
\* activities of a sealed page twice.
C28_RaceDuplicatesPage ==
    [][\A p \in Procs :
          (/\ sync[p].pc = "write"
           /\ sync'[p].pc = "write_tail"
           /\ Len(sync[p].stable_activities) >
                  PageSize * TokenPage(Unwrap(sync[p].cacheAtCall).page_token))
          => ~NoRepeat(ReadStable(sync[p].session)')]_vars

\* The interleaving: the first sync has written a stable list without
\* repetition and not yet the token; the second has read that list, and has
\* written a stable list that holds a page twice.
C28_Witness ==
    \E p \in Procs :
        /\ sync[Other(p)].pc \in { "write_tail", "write_token" }
        /\ sync[Other(p)].new_activities_to_make_stable # << >>
        /\ NoRepeat(sync[Other(p)].stable_activities)
        /\ sync[p].pc = "write_tail"
        /\ Unwrap(sync[p].cacheAtCall).messages = Some(sync[Other(p)].stable_activities)
        /\ ~NoRepeat(ReadStable("s1"))

\* The response to the request that a sync in its page loop is about to send.
NextResponse(p) == ListActivitiesResponse(remote[sync[p].session], sync[p].page_token)

\* The step is an iteration of the page loop of p whose request is answered.
PageStep(p) ==
    /\ sync[p].pc = "request"
    /\ sync'[p].pc \in { "request", "write" }
    /\ sync'[p].requests = sync[p].requests + 1

\* C29: the page loop goes on after a response with a next token, to the
\* page after the one requested, which the log of the service reaches (so the
\* loop ends when the chain of tokens does); it ends after a response without
\* one; the cache files change and a log is returned only after that response.
C29_LoopStopsAtLastPage ==
    [][/\ \A p \in Procs :
            /\ (PageStep(p) /\ sync'[p].pc = "write") =>
                   NextResponse(p).next_page_token = None
            /\ (PageStep(p) /\ sync'[p].pc = "request") =>
                   /\ IsSome(NextResponse(p).next_page_token)
                   /\ TokenPage(sync'[p].page_token) = TokenPage(sync[p].page_token) + 1
                   /\ TokenPage(sync'[p].page_token) * PageSize <= Len(remote[sync[p].session])
            /\ (result'[p] # result[p] /\ result'[p].op = "fetch" /\ result'[p].status = "ok") =>
                   /\ sync[p].pc = "write"
                   /\ sync[p].page_token = None
                   /\ sync[p].requests >= 1
       /\ \A s \in Sessions :
            CacheOf(s)' # CacheOf(s) =>
                \E p \in Procs : /\ sync[p].pc = "write"
                                  /\ sync[p].session = s
                                  /\ sync[p].page_token = None
                                  /\ sync[p].requests >= 1]_vars

\* A first sync of a session has gone through three pages and returned.
C29_Witness ==
    /\ FetchedOk("fg", "s1")
    /\ CallCache("fg").messages = None
    /\ sync["fg"].requests = 3

\* C30: a sync starts its page loop with the persisted token and goes on
\* with the next token of each response; the page it requests is the one
\* after the pages in the stable list and those sealed in this call, and when
\* the loop has ended the requests are one more than the pages sealed in it.
C30_RequestsFollowTokens ==
    [][\A p \in Procs :
          /\ (sync[p].pc = "idle" /\ sync'[p].pc = "request") =>
                 /\ sync'[p].page_token = page_token[sync'[p].session]
                 /\ sync'[p].requests = 0
          /\ PageStep(p) => sync'[p].page_token = NextResponse(p).next_page_token
          /\ sync[p].pc = "request" =>
                 TokenPage(sync[p].page_token) * PageSize =
                    Len(sync[p].stable_activities)
                    + Len(sync[p].new_activities_to_make_stable)
          /\ sync[p].pc = "write" =>
                 (sync[p].requests - 1) * PageSize =
                    Len(sync[p].new_activities_to_make_stable)]_vars

\* A sync that resumed from a persisted token made one request and sealed no
\* page, and the stable list holds more than one page.
C30_Witness ==
    /\ sync["fg"].pc = "write"
    /\ IsSome(CallCache("fg").page_token)
    /\ sync["fg"].requests = 1
    /\ sync["fg"].new_activities_to_make_stable = << >>
    /\ Len(sync["fg"].stable_activities) > PageSize

\* The bot is authenticated, the owner is saved, and the last agent activity
\* of session s is not the one its cursor names.
Behind(s) ==
    /\ client
    /\ IsSome(chat_id)
    /\ IsSome(LastAgentActivity(remote[s]))
    /\ last_activities[s] # Some(Unwrap(LastAgentActivity(remote[s])).id)

\* C31: a tick in which the sync of a session fails leaves the cursors alone;
\* and when the watcher's sync of a session succeeds again and again, a cursor
\* that is behind the last agent activity of the session comes to name it.
C31_WatcherCatchesUp ==
    /\ [][\A s \in Sessions : FailStep(s) => last_activities' = last_activities]_vars
    /\ \A s \in Sessions :
          ([]<><<HandleStep(s)>>_vars) => (Behind(s) ~> ~Behind(s))

\* The cursor of s1 was behind twice and has caught up twice: both agent
\* activities of s1 were announced and the cursor names the last one.
C31_Witness ==
    /\ watcher.pc = "wait"
    /\ Len(notifications["s1"]) = 2
    /\ ~Behind("s1")
    /\ last_activities["s1"] = Some(Unwrap(LastAgentActivity(remote["s1"])).id)

\* C32: when the delivery of a notification fails, the step still sets the
\* cursor of the session to the activity and goes on with the sweep; no
\* activity is announced a second time, a failed delivery is not tried again.
C32_FailedDeliveryNotRetried ==
    /\ [][\A s \in Sessions :
            (HandleStep(s) /\ watcher'.delivery = "failed") =>
                /\ last_activities'[s] =
                      Some(Unwrap(LastAgentActivity(result["bg"].activities)).id)
                /\ Len(notifications'[s]) = Len(notifications[s]) + 1
                /\ watcher'.queue = Tail(watcher.queue)
                /\ watcher'.pc = IF Tail(watcher.queue) # << >> THEN "next" ELSE "wait"]_vars
    /\ [][\A s \in Sessions :
            (HandleStep(s) /\ Len(notifications'[s]) > Len(notifications[s])) =>
                \A i \in 1..Len(notifications[s]) :
                    notifications[s][i].id # notifications'[s][Len(notifications'[s])].id]_vars

\* The delivery of the second notification of s1 has just failed: the cursor
\* of s1 names its activity and the sweep goes on with s2.
C32_Witness ==
    /\ watcher.delivery = "failed"
    /\ watcher.pc = "next"
    /\ watcher.queue = << "s2" >>
    /\ Len(notifications["s1"]) = 2
    /\ last_activities["s1"] = Some(notifications["s1"][2].id)

\* A step of the timer that starts a sweep: the queue of the watcher is filled.
SweepStart == Len(watcher'.queue) > Len(watcher.queue)

\* C33: sweeps of the watcher never overlap. A sweep starts only when the
\* previous one has handled its last session and no background sync is
\* running; a background sync runs only for the session at the head of the
\* one sweep in progress; and a cursor changes only in a step of that sweep,
\* for that session.
C33_TicksNeverOverlap ==
    /\ [][SweepStart => /\ watcher.pc = "wait"
                        /\ watcher.queue = << >>
                        /\ sync["bg"].pc = "idle"]_vars
    /\ [](sync["bg"].pc # "idle" =>
            /\ watcher.pc = "fetching"
            /\ watcher.queue # << >>
            /\ sync["bg"].session = Head(watcher.queue))
    /\ [](watcher.pc = "wait" <=> watcher.queue = << >>)
    /\ [][\A s \in Sessions : last_activities'[s] # last_activities[s] =>
              /\ watcher.pc = "fetching"
              /\ s = Head(watcher.queue)
              /\ watcher'.queue = Tail(watcher.queue)]_vars

\* A second sweep has started after a sweep that moved the cursor of s1.
C33_Witness ==
    /\ watcher.pc = "next"
    /\ watcher.queue = ListSessions
    /\ IsSome(last_activities["s1"])
    /\ sync["bg"].pc = "idle"

\* The commands of the bot that look at the client before they do anything.
GatedOps == { "bot_list", "bot_delete", "s", "message" }

\* A step in which the bot answers a gated command or a plain message.
GatedStep == cmd'.op \in GatedOps /\ cmd' # cmd

\* The answer tells whether the handler called the service: it did not when
\* it found no client, or no current session for a plain message.
RemoteCall(command) == command.status \notin { "AuthMissing", "NoCurrentSession" }

\* The step changes a cache record of the roster.
CacheChange ==
    \/ sessions_file' # sessions_file
    \/ aliases_file' # aliases_file
    \/ current_session' # current_session

\* C34 as stated: a gated command or plain message calls the service or
\* changes a cache record if and only if a client is installed.
C34_GateIff ==
    [][GatedStep => ((RemoteCall(cmd') \/ CacheChange) <=> client)]_vars

\* C34, amended: a gated command or plain message calls the service or changes
\* a cache record only if a client is installed; with a client installed it
\* is refused for no chat, and it calls the service unless it is a plain
\* message and no current session is set; the watcher sweeps and syncs only
\* with a client installed and an owner saved.
C34_AuthenticationGate ==
    /\ [][GatedStep => ((RemoteCall(cmd') \/ CacheChange) => client)]_vars
    /\ [][GatedStep => (cmd'.status = "AuthMissing" <=> ~client)]_vars
    /\ [][GatedStep => ((client /\ ~(cmd'.op = "message" /\ current_session = None))
                            => RemoteCall(cmd'))]_vars
    /\ [](watcher.pc # "wait" => client /\ IsSome(chat_id))
    /\ [](sync["bg"].pc # "idle" => client /\ IsSome(chat_id))

\* Chat 101 is the owner, and the plain message of chat 102, which never
\* authenticated, was sent to the current session.
C34_Witness ==
    /\ client
    /\ chat_id = Some(101)
    /\ cmd.op = "message" /\ cmd.status = "ok" /\ cmd.chat = 102

\* C35: an installed client stays installed; the /alias handler is between
\* its check and its unwrap only with a client installed, and its unwrap never
\* finds the client absent.
C35_ClientNeverReset ==
    /\ [][client => client']_vars
    /\ [](handler.pc = "checked" => client)
    /\ [](handler.pc # "panicked")

\* The /alias handler has passed its check and waits for the lock that the
\* watcher holds during its sweep.
C35_Witness ==
    /\ handler.pc = "checked"
    /\ watcher.pc = "fetching"
    /\ client

\* C36: every alias of the alias map targets a session id of the roster, so no
\* command answers with the stale-alias error.
C36_AliasesTargetRoster ==
    /\ \A a \in DOMAIN aliases_file : aliases_file[a] \in Ids(sessions_file)
    /\ cmd.status # "StaleAlias"

\* A step of a command that takes sessions out of the roster or reconciles it.
RemovalStep == CommandStep("delete") \/ CommandStep("bot_delete") \/ CommandStep("list")

\* A step in which the bot sends a plain message, or approves a plan without
\* an identifier.
UnaddressedStep ==
    /\ cmd' # cmd
    /\ cmd'.op \in { "message", "ok" }
    /\ cmd'.identifier = << >>
    /\ cmd'.status \notin { "AuthMissing", "NoCurrentSession" }
    /\ cmd'.id # << >>

\* C37: the deletions and the reconciliation leave the current session as it
\* was, also when it names the session that left the roster; a plain message
\* and an /ok without identifier are refused for no current session only when
\* none is set, and go to the current session, in the roster or not.
C37_CurrentSessionDangles ==
    /\ [][RemovalStep => current_session' = current_session]_vars
    /\ [][UnaddressedStep => current_session = Some(cmd'.id)]_vars
    /\ [][(cmd' # cmd /\ cmd'.status = "NoCurrentSession") => current_session = None]_vars

\* The current session was deleted and left the roster, and a plain message
\* or an /ok without identifier was sent to it all the same.
C37_Witness ==
    /\ cmd.op \in { "message", "ok" }
    /\ cmd.identifier = << >>
    /\ cmd.status \in { "ok", "remote_error" }
    /\ current_session = Some(cmd.id)
    /\ cmd.id \notin live
    /\ cmd.id \notin Ids(sessions_file)

\* C38: whenever resolve succeeds with (id, index), whatever the form of the
\* identifier, the index lies in 1..n for a roster of n entries and the entry
\* at that index has that id; resolve leaves the roster and the alias map as
\* they were.
C38_ResolvedIndexNamesId ==
    /\ []((Resolved /\ cmd.status = "ok") =>
             /\ cmd.index >= 1
             /\ cmd.index <= Len(sessions_file)
             /\ sessions_file[cmd.index] = cmd.id)
    /\ [][cmd'.op = "resolve" =>
             /\ sessions_file' = sessions_file
             /\ aliases_file' = aliases_file]_vars

\* An alias was resolved to the last entry of a roster of three.
C38_Witness ==
    /\ Resolved /\ cmd.status = "ok"
    /\ StartsWith(cmd.identifier, "@")
    /\ Len(sessions_file) = 3
    /\ cmd.index = 3
    /\ sessions_file[3] = cmd.id

\* The identifier is a non-empty string of decimal digits.
AllDigits(identifier) ==
    identifier # << >> /\ \A i \in 1..Len(identifier) : IsDigit(identifier[i])

\* The number that a string of decimal digits writes, of any size.
RECURSIVE DecimalValue(_)
DecimalValue(digits) ==
    IF digits = << >> THEN 0
    ELSE DecimalValue(SubSeq(digits, 1, Len(digits) - 1)) * 10 + DigitValue(digits[Len(digits)])

\* C39 as stated: on a non-empty roster an identifier made of digits only is
\* never looked up as an id: it gives the entry at the index it writes, or
\* fails with IndexOutOfBounds or NonPositiveIndex.
C39_DigitsNeverLookedUpAsId ==
    (Resolved /\ sessions_file # << >> /\ AllDigits(cmd.identifier)) =>
        \/ cmd.status \in { "IndexOutOfBounds", "NonPositiveIndex" }
        \/ /\ cmd.status = "ok"
           /\ cmd.index = DecimalValue(cmd.identifier)

\* C39, amended: on a non-empty roster an identifier that parses as a usize
\* gives the entry at that index, or fails with IndexOutOfBounds or
\* NonPositiveIndex, also when an entry has the identifier as its id; a string
\* of digits too large for a usize is looked up as an id, and found when an
\* entry has it; an identifier that starts with '@' gives what the alias map
\* holds for it, or fails with AliasNotFound or StaleAlias.
C39_IndexBeforeLiteral ==
    /\ (Resolved /\ sessions_file # << >> /\ ~StartsWith(cmd.identifier, "@")
          /\ IsSome(ParseUsize(cmd.identifier))) =>
           \/ cmd.status \in { "IndexOutOfBounds", "NonPositiveIndex" }
           \/ /\ cmd.status = "ok"
              /\ cmd.index = Unwrap(ParseUsize(cmd.identifier))
              /\ cmd.id = sessions_file[cmd.index]
    /\ (Resolved /\ sessions_file # << >> /\ AllDigits(cmd.identifier)
          /\ ~IsSome(ParseUsize(cmd.identifier))) =>
           IF cmd.identifier \in Ids(sessions_file)
           THEN cmd.status = "ok" /\ cmd.id = cmd.identifier
           ELSE cmd.status = "SessionNotFound"
    /\ (Resolved /\ sessions_file # << >> /\ StartsWith(cmd.identifier, "@")) =>
           \/ cmd.status \in { "AliasNotFound", "StaleAlias" }
           \/ /\ cmd.status = "ok"
              /\ cmd.identifier \in DOMAIN aliases_file
              /\ cmd.id = aliases_file[cmd.identifier]

\* The roster holds a session with the id 2 at another place than the second,
\* and the identifier 2 was resolved to the second entry.
C39_Witness ==
    /\ Resolved /\ cmd.status = "ok"
    /\ cmd.identifier = << "2" >>
    /\ cmd.identifier \in Ids(sessions_file)
    /\ cmd.index = 2
    /\ cmd.id # cmd.identifier

\* C40: the service lists no id twice and gives no id to two sessions; then
\* after any sequence of list, create and delete commands no id occurs twice
\* in the roster.
C40_RosterIdsUnique ==
    \A i, j \in 1..Len(sessions_file) : sessions_file[i] = sessions_file[j] => i = j

\* sessions list has kept one cached entry and pushed one session that was
\* not cached.
C40_Witness ==
    /\ cmd.op = "list" /\ cmd.status = "ok"
    /\ Len(sessions_file) = 2
    /\ cmd.pushed = 1
    /\ sessions_file[1] # sessions_file[2]

====
